---------------------------- MODULE Spec2Model ----------------------------
(***************************************************************************)
(* Model of the rating engine of @mikesaintsg/rater (core/Engine.ts and    *)
(* helpers.ts).                                                            *)
(*                                                                         *)
(* JavaScript values are tagged records: a number is an exact fraction     *)
(* [t |-> "num", n, d] in lowest terms, a string is a sequence of text     *)
(* fragments (single characters wherever the code inspects characters),    *)
(* undefined and null are their own records.  The engine is the state      *)
(* machine: its two listener sets (in insertion order, as a JavaScript Set *)
(* iterates), the destroyed flag and the options fixed by the constructor. *)
(* `last' records the most recent call on the engine and what it did.      *)
(***************************************************************************)
EXTENDS Integers, Sequences, FiniteSets, TLC

VARIABLES
    options,          \* the readonly # fields set by the constructor
    rateListeners,    \* #rateListeners, a Set in insertion order
    errorListeners,   \* #errorListeners, a Set in insertion order
    isDestroyed,      \* #isDestroyed
    handles,          \* the unsubscribe closures returned so far, and how often each was called
    last,             \* the most recent call: operation, arguments, outcome, notifications
    input             \* the arguments drawn for the calls of the calculation specifications

vars == <<options, rateListeners, errorListeners, isDestroyed, handles, last, input>>

---------------------------------------------------------------------------
(* JavaScript values *)

Undefined == [t |-> "undefined"]

Null == [t |-> "null"]

Bool(b) == [t |-> "bool", b |-> b]

Str(s) == [t |-> "str", s |-> s]

Arr(a) == [t |-> "arr", a |-> a]

Obj(o) == [t |-> "obj", o |-> o]

Abs(i) == IF i < 0 THEN -i ELSE i

RECURSIVE Gcd(_, _)
Gcd(a, b) == IF b = 0 THEN a ELSE Gcd(b, a % b)

\* the number n/d, in lowest terms with a positive denominator
Num(n, d) ==
    LET s == IF d < 0 THEN -1 ELSE 1
        g == Gcd(Abs(n), Abs(d))
    IN  [t |-> "num", n |-> (s * n) \div g, d |-> (s * d) \div g]

Int2Num(i) == [t |-> "num", n |-> i, d |-> 1]

NumAdd(x, y) == Num(x.n * y.d + y.n * x.d, x.d * y.d)

NumSub(x, y) == Num(x.n * y.d - y.n * x.d, x.d * y.d)

NumMul(x, y) == Num(x.n * y.n, x.d * y.d)

\* y is not zero
NumDiv(x, y) == Num(x.n * y.d, x.d * y.n)

NumLt(x, y) == x.n * y.d < y.n * x.d

NumLe(x, y) == x.n * y.d <= y.n * x.d

NumIsZero(x) == x.n = 0

\* Math.floor
NumFloor(x) == Int2Num(x.n \div x.d)

\* Math.ceil
NumCeil(x) == Int2Num(-((-x.n) \div x.d))

\* Math.round: the nearest integer, a tie going up
NumRound(x) == Int2Num((2 * x.n + x.d) \div (2 * x.d))

RECURSIVE IntPow(_, _)
IntPow(b, e) == IF e = 0 THEN 1 ELSE b * IntPow(b, e - 1)

\* Math.pow for an integer exponent; 0 to a negative power is left out of the inputs
NumPow(x, e) ==
    IF e >= 0 THEN Num(IntPow(x.n, e), IntPow(x.d, e))
    ELSE Num(IntPow(x.d, -e), IntPow(x.n, -e))

---------------------------------------------------------------------------
(* helpers.ts: type guards and value helpers *)

isNumber(value) == value.t = "num"

isString(value) == value.t = "str"

isArray(value) == value.t = "arr"

\* typeof value === 'object' && value !== null && !Array.isArray(value)
isRecord(value) == value.t = "obj"

\* obj[key] on a plain object, whose properties are kept as a sequence of [k, v]
GetProperty(obj, key) ==
    LET hits == {i \in 1..Len(obj.o) : obj.o[i].k = key}
    IN  IF hits = {} THEN Undefined ELSE obj.o[CHOOSE i \in hits : TRUE].v

RECURSIVE SplitFrom(_, _, _)
\* path.split('.'): the pieces of the character sequence between the dots
SplitFrom(path, i, piece) ==
    IF i > Len(path) THEN <<piece>>
    ELSE IF path[i] = "." THEN <<piece>> \o SplitFrom(path, i + 1, <<>>)
    ELSE SplitFrom(path, i + 1, Append(piece, path[i]))

Split(path) == SplitFrom(path, 1, <<>>)

RECURSIVE Traverse(_, _, _)
Traverse(current, parts, i) ==
    IF i > Len(parts) THEN current
    ELSE IF current = Null \/ current = Undefined \/ ~isRecord(current) THEN Undefined
    ELSE Traverse(GetProperty(current, parts[i]), parts, i + 1)

getNestedValue(obj, path) ==
    IF obj = Null \/ obj = Undefined THEN Undefined
    ELSE Traverse(obj, Split(path), 1)

Digits == <<"0", "1", "2", "3", "4", "5", "6", "7", "8", "9">>

IsDigit(c) == \E i \in 1..10 : Digits[i] = c

DigitValue(c) == (CHOOSE i \in 1..10 : Digits[i] = c) - 1

IsWhiteSpace(c) == c \in {" ", "\t", "\n"}

RECURSIVE SkipWhiteSpace(_, _)
SkipWhiteSpace(s, i) ==
    IF i <= Len(s) /\ IsWhiteSpace(s[i]) THEN SkipWhiteSpace(s, i + 1) ELSE i

RECURSIVE DigitsEnd(_, _)
\* the first position at or after i that holds no digit
DigitsEnd(s, i) == IF i <= Len(s) /\ IsDigit(s[i]) THEN DigitsEnd(s, i + 1) ELSE i

RECURSIVE DigitsValue(_, _, _)
\* the decimal value of the digits s[i..j-1]
DigitsValue(s, i, j) ==
    IF j <= i THEN 0 ELSE 10 * DigitsValue(s, i, j - 1) + DigitValue(s[j - 1])

\* the number written as the digits s[b..c-1], a point and the digits s[c+1..e-1]
\* (no point when e = c), negated when neg; NaN, here Undefined, when there is no digit
ParsedNumber(s, neg, b, c, e) ==
    LET fracLen == IF e > c THEN e - (c + 1) ELSE 0
        scale == IntPow(10, fracLen)
        sign == IF neg THEN -1 ELSE 1
    IN  IF c = b /\ fracLen = 0 THEN Undefined
        ELSE Num(sign * (DigitsValue(s, b, c) * scale + DigitsValue(s, c + 1, e)), scale)

\* the digits from b on end at c; a point there is followed by further digits
ParseFraction(s, neg, b, c) ==
    ParsedNumber(s, neg, b, c,
                 IF c <= Len(s) /\ s[c] = "." THEN DigitsEnd(s, c + 1) ELSE c)

\* the number starts at a, after the white space, with an optional sign
ParseSigned(s, a) ==
    ParseFraction(s, a <= Len(s) /\ s[a] = "-",
                  IF a <= Len(s) /\ s[a] \in {"-", "+"} THEN a + 1 ELSE a,
                  DigitsEnd(s, IF a <= Len(s) /\ s[a] \in {"-", "+"} THEN a + 1 ELSE a))

\* Number.parseFloat on a character sequence without exponent: leading white
\* space, a sign, digits, a point, digits; the longest such prefix
parseFloat(s) == ParseSigned(s, SkipWhiteSpace(s, 1))

toNumber(value) ==
    IF isNumber(value) THEN value
    ELSE IF isString(value) THEN parseFloat(value.s)
    ELSE Undefined

RECURSIVE NatToString(_)
NatToString(n) ==
    IF n < 10 THEN <<Digits[n + 1]>> ELSE NatToString(n \div 10) \o <<Digits[(n % 10) + 1]>>

RECURSIVE FractionDigits(_, _, _)
\* the digits of r/d after the point, at most `left' of them
FractionDigits(r, d, left) ==
    IF r = 0 \/ left = 0 THEN <<>>
    ELSE <<Digits[((10 * r) \div d) + 1]>> \o FractionDigits((10 * r) % d, d, left - 1)

\* String(value) of a number: a double prints at most 17 significant digits, which
\* are taken after the point
NumToString(x) ==
    LET m == Abs(x.n)
        sign == IF x.n < 0 THEN <<"-">> ELSE <<>>
        whole == NatToString(m \div x.d)
        frac == FractionDigits(m % x.d, x.d, 17)
    IN  sign \o whole \o (IF frac = <<>> THEN <<>> ELSE <<".">> \o frac)

RECURSIVE Stringify(_)
RECURSIVE StringifyItems(_, _)
RECURSIVE StringifyEntries(_, _)
\* JSON.stringify of a value
Stringify(value) ==
    CASE value.t = "num" -> NumToString(value)
      [] value.t = "str" -> <<"\"">> \o value.s \o <<"\"">>
      [] value.t = "bool" -> IF value.b THEN <<"t", "r", "u", "e">> ELSE <<"f", "a", "l", "s", "e">>
      [] value.t = "null" -> <<"n", "u", "l", "l">>
      [] value.t = "arr" -> <<"[">> \o StringifyItems(value.a, 1) \o <<"]">>
      [] value.t = "obj" -> <<"{">> \o StringifyEntries(value.o, 1) \o <<"}">>
      [] OTHER -> <<"n", "u", "l", "l">>

StringifyItems(a, i) ==
    IF i > Len(a) THEN <<>>
    ELSE (IF i > 1 THEN <<",">> ELSE <<>>) \o Stringify(a[i]) \o StringifyItems(a, i + 1)

StringifyEntries(o, i) ==
    IF i > Len(o) THEN <<>>
    ELSE IF o[i].v = Undefined THEN StringifyEntries(o, i + 1)
    ELSE (IF \E j \in 1..(i - 1) : o[j].v # Undefined THEN <<",">> ELSE <<>>)
         \o <<"\"">> \o o[i].k \o <<"\":">> \o Stringify(o[i].v)
         \o StringifyEntries(o, i + 1)

toLookupKey(value) ==
    CASE isString(value) -> value.s
      [] isNumber(value) -> NumToString(value)
      [] value = Null -> <<"n", "u", "l", "l">>
      [] value = Undefined -> <<"u", "n", "d", "e", "f", "i", "n", "e", "d">>
      [] value.t = "bool" -> IF value.b THEN <<"t", "r", "u", "e">> ELSE <<"f", "a", "l", "s", "e">>
      [] value.t \in {"arr", "obj"} -> Stringify(value)
      [] OTHER -> <<"u", "n", "k", "n", "o", "w", "n">>

\* values[key] on the values map of a lookup table
LookupValue(values, key) == GetProperty(values, key)

---------------------------------------------------------------------------
(* helpers.ts: math helpers *)

roundToDecimalPlaces(value, decimalPlaces) ==
    LET multiplier == Int2Num(IntPow(10, decimalPlaces))
    IN  NumDiv(NumRound(NumMul(value, multiplier)), multiplier)

clamp(value, minimum, maximum) ==
    LET r1 == IF minimum # Undefined /\ NumLt(value, minimum) THEN minimum ELSE value
    IN  IF maximum # Undefined /\ NumLt(maximum, r1) THEN maximum ELSE r1

---------------------------------------------------------------------------
(* JavaScript operators the code relies on *)

\* a string the code never takes apart: one fragment
Lit(s) == Str(<<s>>)

\* ToBoolean
Truthy(value) ==
    CASE value.t \in {"undefined", "null"} -> FALSE
      [] value.t = "bool" -> value.b
      [] value.t = "num" -> value.n # 0
      [] value.t = "str" -> value.s # <<>>
      [] OTHER -> TRUE

\* value ?? other takes other for these
Nullish(value) == value \in {Undefined, Null}

\* a === b, also the comparison of Array.prototype.includes: primitives by value;
\* an array or object of the subject is never the very object of the configuration
StrictEquals(a, b) == a.t \notin {"arr", "obj"} /\ a = b

Includes(array, value) == \E i \in 1..Len(array.a) : StrictEquals(array.a[i], value)

\* String(value) inside a template literal
TemplateText(value) ==
    CASE value.t = "str" -> value.s
      [] value.t = "num" -> NumToString(value)
      [] OTHER -> <<value.t>>

\* an Error object; data is set by createRaterError only
TypeError(message) == [name |-> "TypeError", message |-> message, data |-> Undefined]

createRaterError(message, code, groupId) ==
    [name |-> "RaterError", message |-> message,
     data |-> [code |-> code, groupId |-> groupId]]

Returned(value) == [threw |-> FALSE, value |-> value]

Threw(error) == [threw |-> TRUE, error |-> error]

---------------------------------------------------------------------------
(* helpers.ts: condition evaluation *)

NumericComparison(operator, numValue, numCondition) ==
    CASE operator = "greaterThan" -> NumLt(numCondition, numValue)
      [] operator = "lessThan" -> NumLt(numValue, numCondition)
      [] operator = "greaterThanOrEqual" -> NumLe(numCondition, numValue)
      [] operator = "lessThanOrEqual" -> NumLe(numValue, numCondition)

KnownOperators ==
    {"equals", "notEquals", "greaterThan", "lessThan", "greaterThanOrEqual",
     "lessThanOrEqual", "in", "notIn", "between", "notBetween"}

\* the three numbers of between and notBetween all came out of toNumber
AllNumbers(numValue, minimum, maximum) ==
    numValue # Undefined /\ minimum # Undefined /\ maximum # Undefined

\* a faulty switch in which notIn, like in, is not met for a value that is no array
ConditionIsMetArraysOnly(operator, actualValue, value, numValue, numCondition) ==
    CASE operator = "equals" -> StrictEquals(actualValue, value)
      [] operator = "notEquals" -> ~StrictEquals(actualValue, value)
      [] operator \in {"greaterThan", "lessThan", "greaterThanOrEqual", "lessThanOrEqual"} ->
            /\ numValue # Undefined
            /\ numCondition # Undefined
            /\ NumericComparison(operator, numValue, numCondition)
      [] operator = "in" -> isArray(value) /\ Includes(value, actualValue)
      [] operator = "notIn" -> isArray(value) /\ ~Includes(value, actualValue)
      [] OTHER -> FALSE

\* the switch of evaluateRateCondition over the operator
ConditionIsMet(operator, actualValue, value, numValue, numCondition) ==
    CASE operator = "equals" -> StrictEquals(actualValue, value)
      [] operator = "notEquals" -> ~StrictEquals(actualValue, value)
      [] operator \in {"greaterThan", "lessThan", "greaterThanOrEqual", "lessThanOrEqual"} ->
            /\ numValue # Undefined
            /\ numCondition # Undefined
            /\ NumericComparison(operator, numValue, numCondition)
      [] operator = "in" -> isArray(value) /\ Includes(value, actualValue)
      [] operator = "notIn" -> IF isArray(value) THEN ~Includes(value, actualValue) ELSE TRUE
      [] OTHER -> FALSE

\* the cases between and notBetween, for a value that is an array of two elements
BetweenIsMet(operator, numValue, minimum, maximum) ==
    IF operator = "between"
    THEN /\ AllNumbers(numValue, minimum, maximum)
         /\ NumLe(minimum, numValue) /\ NumLe(numValue, maximum)
    ELSE IF AllNumbers(numValue, minimum, maximum)
         THEN NumLt(numValue, minimum) \/ NumLt(maximum, numValue)
         ELSE TRUE

ConditionResult(condition, operator, isMet, actualValue) ==
    [condition |-> condition, isMet |-> isMet, actualValue |-> actualValue,
     error |-> IF operator \in KnownOperators THEN Undefined
               ELSE Str(<<"Unknown operator: ">> \o condition.operator.s)]

\* evaluateRateCondition, once the value at the field is known
EvaluateOn(condition, operator, value, actualValue) ==
    ConditionResult(condition, operator,
        IF operator \in {"between", "notBetween"}
        THEN /\ isArray(value) /\ Len(value.a) = 2
             /\ BetweenIsMet(operator, toNumber(actualValue),
                             toNumber(value.a[1]), toNumber(value.a[2]))
        ELSE ConditionIsMet(operator, actualValue, value,
                            toNumber(actualValue), toNumber(value)),
        actualValue)

evaluateRateCondition(subject, condition) ==
    EvaluateOn(condition, condition.operator.s[1], condition.value,
               getNestedValue(subject, condition.field.s))

---------------------------------------------------------------------------
(* core/Engine.ts: the mathematical methods *)

Math_min(x, y) == IF NumLt(y, x) THEN y ELSE x

Math_max(x, y) == IF NumLt(x, y) THEN y ELSE x

\* the exponent of power is an integer in every input of the model
applyOperation(rate, operation, operand) ==
    CASE operation = "add" -> NumAdd(rate, operand)
      [] operation = "subtract" -> NumSub(rate, operand)
      [] operation = "multiply" -> NumMul(rate, operand)
      [] operation = "divide" -> IF ~NumIsZero(operand) THEN NumDiv(rate, operand) ELSE rate
      [] operation = "percentage" ->
            NumMul(rate, NumAdd(Int2Num(1), NumDiv(operand, Int2Num(100))))
      [] operation = "percentageOf" -> NumMul(rate, NumDiv(operand, Int2Num(100)))
      [] operation = "minimum" -> Math_min(rate, operand)
      [] operation = "maximum" -> Math_max(rate, operand)
      [] operation = "average" -> NumDiv(NumAdd(rate, operand), Int2Num(2))
      [] operation = "power" -> NumPow(rate, operand.n)
      [] operation = "round" -> NumRound(rate)
      [] operation = "ceil" -> NumCeil(rate)
      [] operation = "floor" -> NumFloor(rate)
      [] OTHER -> rate

RECURSIVE ReduceSum(_, _)
ReduceSum(rates, i) ==
    IF i = 0 THEN Int2Num(0) ELSE NumAdd(ReduceSum(rates, i - 1), rates[i])

RECURSIVE ReduceProduct(_, _)
ReduceProduct(rates, i) ==
    IF i = 0 THEN Int2Num(1) ELSE NumMul(ReduceProduct(rates, i - 1), rates[i])

RECURSIVE ReduceMin(_, _)
ReduceMin(rates, i) ==
    IF i = 1 THEN rates[1] ELSE Math_min(ReduceMin(rates, i - 1), rates[i])

RECURSIVE ReduceMax(_, _)
ReduceMax(rates, i) ==
    IF i = 1 THEN rates[1] ELSE Math_max(ReduceMax(rates, i - 1), rates[i])

\* a faulty aggregate without the early return: each reduce starts from its own
\* initial value on the empty list
aggregateWithoutEarlyReturn(rates, method) ==
    CASE method = "sum" -> ReduceSum(rates, Len(rates))
      [] method = "product" -> ReduceProduct(rates, Len(rates))
      [] method = "average" ->
            IF Len(rates) = 0 THEN Int2Num(0)
            ELSE NumDiv(ReduceSum(rates, Len(rates)), Int2Num(Len(rates)))
      [] method = "minimum" -> IF Len(rates) = 0 THEN Int2Num(0) ELSE ReduceMin(rates, Len(rates))
      [] method = "maximum" -> IF Len(rates) = 0 THEN Int2Num(0) ELSE ReduceMax(rates, Len(rates))
      [] OTHER -> IF Len(rates) = 0 THEN Int2Num(0) ELSE rates[1]

aggregate(rates, method) ==
    IF Len(rates) = 0 THEN Int2Num(0)
    ELSE CASE method = "sum" -> ReduceSum(rates, Len(rates))
           [] method = "product" -> ReduceProduct(rates, Len(rates))
           [] method = "average" -> NumDiv(ReduceSum(rates, Len(rates)), Int2Num(Len(rates)))
           [] method = "minimum" -> ReduceMin(rates, Len(rates))
           [] method = "maximum" -> ReduceMax(rates, Len(rates))
           [] OTHER -> rates[1]

---------------------------------------------------------------------------
(* core/Engine.ts: private methods *)

DestroyedError == createRaterError(<<"Rating engine has been destroyed">>, "UNKNOWN", Undefined)

\* a faulty #assertNotDestroyed that never throws
assertNotDestroyedNever(destroyed) == Undefined

\* the error #assertNotDestroyed throws, or Undefined when it returns
assertNotDestroyed(destroyed) == IF destroyed THEN DestroyedError ELSE Undefined

RECURSIVE LastRange(_, _, _)
\* a faulty scan of the ranges in which a later matching range wins
LastRange(ranges, numValue, i) ==
    IF i > Len(ranges) THEN 0
    ELSE LET range == ranges[i]
             minOk == range.minimum = Undefined \/ NumLe(range.minimum, numValue)
             maxOk == range.maximum = Undefined \/ NumLe(numValue, range.maximum)
             later == LastRange(ranges, numValue, i + 1)
         IN  IF later # 0 THEN later ELSE IF minOk /\ maxOk THEN i ELSE 0

RECURSIVE FirstRange(_, _, _)
\* the first range, from the i-th on, whose bounds contain numValue; 0 if none
FirstRange(ranges, numValue, i) ==
    IF i > Len(ranges) THEN 0
    ELSE LET range == ranges[i]
             minOk == range.minimum = Undefined \/ NumLe(range.minimum, numValue)
             maxOk == range.maximum = Undefined \/ NumLe(numValue, range.maximum)
         IN  IF minOk /\ maxOk THEN i ELSE FirstRange(ranges, numValue, i + 1)

\* a rate source that gave no value: the code falls through to the next one
Miss == [threw |-> FALSE, miss |-> TRUE]

\* the fieldPath branch
FieldAttempt(fieldPath, numValue) ==
    IF Truthy(fieldPath) /\ numValue # Undefined THEN Returned(numValue) ELSE Miss

\* the lookupTable branch, for a table that is present
LookupAttempt(table, key) ==
    IF Nullish(table.values)
    THEN Threw(TypeError(<<"Cannot read properties of undefined (reading '">> \o key \o <<"')">>))
    ELSE IF isRecord(table.values) /\ LookupValue(table.values, key) # Undefined
    THEN Returned(LookupValue(table.values, key))
    ELSE IF table.defaultValue # Undefined THEN Returned(table.defaultValue)
    ELSE Miss

\* the rangeTable branch, for a table that is present
RangeAttempt(table, numValue) ==
    IF numValue # Undefined /\ ~isArray(table.ranges)
    THEN Threw(TypeError(<<"factor.rangeTable.ranges is not iterable">>))
    ELSE IF numValue # Undefined /\ FirstRange(table.ranges.a, numValue, 1) # 0
    THEN Returned(table.ranges.a[FirstRange(table.ranges.a, numValue, 1)].rate)
    ELSE IF table.defaultRate # Undefined THEN Returned(table.defaultRate)
    ELSE Miss

\* the first of the sources that returned or threw; factor.baseRate ?? 0 after them
\* a faulty order of the rate sources: the lookup table before the field path
FirstSourceLookupFirst(field, lookup, range, baseRate) ==
    IF lookup # Miss THEN lookup
    ELSE IF field # Miss THEN field
    ELSE IF range # Miss THEN range
    ELSE [threw |-> FALSE,
          value |-> IF baseRate \in {Undefined, Null} THEN Int2Num(0) ELSE baseRate]

\* a faulty fallback: a factor none of whose sources yields a value is an error
FirstSourceStrict(field, lookup, range, baseRate) ==
    IF field # Miss THEN field
    ELSE IF lookup # Miss THEN lookup
    ELSE IF range # Miss THEN range
    ELSE IF baseRate \in {Undefined, Null}
    THEN [threw |-> TRUE, error |-> TypeError(<<"No rate source yields a value">>)]
    ELSE [threw |-> FALSE, value |-> baseRate]

FirstSource(field, lookup, range, baseRate) ==
    IF field # Miss THEN field
    ELSE IF lookup # Miss THEN lookup
    ELSE IF range # Miss THEN range
    ELSE Returned(IF Nullish(baseRate) THEN Int2Num(0) ELSE baseRate)

\* #resolveFactorRate: fieldPath > lookupTable > rangeTable > baseRate
resolveFactorRate(subject, factor) ==
    FirstSource(
        IF Truthy(factor.fieldPath)
        THEN FieldAttempt(factor.fieldPath,
                          toNumber(getNestedValue(subject, factor.fieldPath.s)))
        ELSE Miss,
        IF Truthy(factor.lookupTable)
        THEN LookupAttempt(factor.lookupTable,
                           toLookupKey(getNestedValue(subject, factor.lookupTable.field.s)))
        ELSE Miss,
        IF Truthy(factor.rangeTable)
        THEN RangeAttempt(factor.rangeTable,
                          toNumber(getNestedValue(subject, factor.rangeTable.field.s)))
        ELSE Miss,
        factor.baseRate)

RECURSIVE EmitFrom(_, _, _, _)
\* a faulty pass that lets what a listener throws escape the loop: the listeners
\* after the one that throws are not called
EmitFrom(listeners, throwing, event, i) ==
    IF i > Len(listeners) THEN <<>>
    ELSE <<[callback |-> listeners[i], event |-> event, threw |-> listeners[i] \in throwing]>>
         \o (IF listeners[i] \in throwing THEN <<>>
             ELSE EmitFrom(listeners, throwing, event, i + 1))

EmitUntilThrow(listeners, throwing, event) == EmitFrom(listeners, throwing, event, 1)

\* one pass of #emitRate / #emitError over the listener set: every listener is
\* called with the event, and what a listener throws is swallowed
Emit(listeners, throwing, event) ==
    [i \in 1..Len(listeners) |->
        [callback |-> listeners[i], event |-> event, threw |-> listeners[i] \in throwing]]

---------------------------------------------------------------------------
(* core/Engine.ts: evaluation and calculation methods.  `engine' is the    *)
(* record [options, isDestroyed] of the fields a method reads.  A method    *)
(* gives Returned(value) or Threw(error).                                   *)

evaluateCondition(engine, subject, condition) ==
    IF assertNotDestroyed(engine.isDestroyed) # Undefined
    THEN Threw(assertNotDestroyed(engine.isDestroyed))
    ELSE Returned(evaluateRateCondition(subject, condition))

FactorResult(factor, isApplied, rate, conditionResults, error) ==
    [factor |-> factor, isApplied |-> isApplied, rate |-> rate,
     conditionResults |-> conditionResults, error |-> error]

\* factor.conditions.map(c => this.evaluateCondition(subject, c))
ConditionResults(engine, subject, conditions) ==
    Arr([i \in 1..Len(conditions) |-> evaluateCondition(engine, subject, conditions[i]).value])

\* a faulty FactorRate that applies round, ceil and floor, which read no operand,
\* also when the operand is missing
FactorRateUnaryWithoutOperand(factor, resolved) ==
    clamp(IF Truthy(factor.operation)
             /\ (factor.operand # Undefined
                    \/ factor.operation.s[1] \in {"round", "ceil", "floor"})
          THEN applyOperation(resolved, factor.operation.s[1], factor.operand)
          ELSE resolved,
          factor.minimumRate, factor.maximumRate)

\* the operation, if any, and the clamp of the factor on the resolved value
FactorRate(factor, resolved) ==
    clamp(IF Truthy(factor.operation) /\ factor.operand # Undefined
          THEN applyOperation(resolved, factor.operation.s[1], factor.operand)
          ELSE resolved,
          factor.minimumRate, factor.maximumRate)

\* a faulty rateFactor that applies the factor when any one condition is met
RateEnabledFactorAny(factor, conditionResults, resolved) ==
    IF conditionResults # Undefined
       /\ \A i \in 1..Len(conditionResults.a) : ~conditionResults.a[i].isMet
    THEN Returned(FactorResult(factor, FALSE, Int2Num(0), conditionResults, Undefined))
    ELSE IF resolved.threw THEN resolved
    ELSE Returned(FactorResult(factor, TRUE, FactorRate(factor, resolved.value),
                               conditionResults, Undefined))

\* a faulty rateFactor that raises the error of a condition result
RateEnabledFactorRaising(factor, conditionResults, resolved) ==
    IF conditionResults # Undefined
       /\ \E i \in 1..Len(conditionResults.a) : conditionResults.a[i].error # Undefined
    THEN Threw(TypeError(<<"Condition evaluation failed">>))
    ELSE IF conditionResults # Undefined
       /\ \E i \in 1..Len(conditionResults.a) : ~conditionResults.a[i].isMet
    THEN Returned(FactorResult(factor, FALSE, Int2Num(0), conditionResults, Undefined))
    ELSE IF resolved.threw THEN resolved
    ELSE Returned(FactorResult(factor, TRUE, FactorRate(factor, resolved.value),
                               conditionResults, Undefined))

\* rateFactor of an enabled factor, its conditions evaluated
RateEnabledFactor(factor, conditionResults, resolved) ==
    IF conditionResults # Undefined
       /\ \E i \in 1..Len(conditionResults.a) : ~conditionResults.a[i].isMet
    THEN Returned(FactorResult(factor, FALSE, Int2Num(0), conditionResults, Undefined))
    ELSE IF resolved.threw THEN resolved
    ELSE Returned(FactorResult(factor, TRUE, FactorRate(factor, resolved.value),
                               conditionResults, Undefined))

rateFactor(engine, subject, factor) ==
    IF assertNotDestroyed(engine.isDestroyed) # Undefined
    THEN Threw(assertNotDestroyed(engine.isDestroyed))
    ELSE IF factor.enabled = Bool(FALSE)
    THEN Returned(FactorResult(factor, FALSE, Int2Num(0), Undefined, Undefined))
    ELSE RateEnabledFactor(factor,
            IF Truthy(factor.conditions) /\ Len(factor.conditions.a) > 0
            THEN ConditionResults(engine, subject, factor.conditions.a)
            ELSE Undefined,
            resolveFactorRate(subject, factor))

\* a.priority ?? 0
PriorityOf(factor) ==
    IF factor.priority \in {Undefined, Null} THEN Int2Num(0) ELSE factor.priority

RECURSIVE InsertBeforeEqual(_, _)
\* a faulty insertion that puts `factor' before the elements of the same priority
InsertBeforeEqual(sorted, factor) ==
    IF sorted = <<>> THEN <<factor>>
    ELSE IF NumLt(PriorityOf(sorted[Len(sorted)]), PriorityOf(factor))
    THEN Append(sorted, factor)
    ELSE Append(InsertBeforeEqual(SubSeq(sorted, 1, Len(sorted) - 1), factor),
                sorted[Len(sorted)])

RECURSIVE InsertByPriority(_, _)
\* `sorted' with `factor' put after the last element whose priority is not larger
InsertByPriority(sorted, factor) ==
    IF sorted = <<>> THEN <<factor>>
    ELSE IF NumLe(PriorityOf(sorted[Len(sorted)]), PriorityOf(factor))
    THEN Append(sorted, factor)
    ELSE Append(InsertByPriority(SubSeq(sorted, 1, Len(sorted) - 1), factor),
                sorted[Len(sorted)])

RECURSIVE SortByPriority(_, _)
\* [...factors].sort((a, b) => priorityA - priorityB): Array.prototype.sort is stable
SortByPriority(factors, n) ==
    IF n = 0 THEN <<>> ELSE InsertByPriority(SortByPriority(factors, n - 1), factors[n])

RECURSIVE SelectSeqRates(_, _)
\* results.filter(r => r.isApplied).map(r => r.rate)
SelectSeqRates(results, i) ==
    IF i > Len(results) THEN <<>>
    ELSE (IF results[i].isApplied THEN <<results[i].rate>> ELSE <<>>)
         \o SelectSeqRates(results, i + 1)

AppliedRates(results) == SelectSeqRates(results, 1)

\* a faulty round of the loop of rateGroup that drops the message of the error
FactorStepSilent(acc, factor, call, continueOnError) ==
    [factorResults |->
        Append(acc.factorResults,
               IF call.threw
               THEN FactorResult(factor, FALSE, Int2Num(0), Undefined, Undefined)
               ELSE call.value),
     evaluated |-> Append(acc.evaluated, factor.id),
     thrown |-> IF call.threw /\ ~continueOnError THEN call.error ELSE Undefined]

\* a faulty round of the loop of rateGroup that never re-throws
FactorStepNoRethrow(acc, factor, call, continueOnError) ==
    [factorResults |->
        Append(acc.factorResults,
               IF call.threw
               THEN FactorResult(factor, FALSE, Int2Num(0), Undefined, Str(call.error.message))
               ELSE call.value),
     evaluated |-> Append(acc.evaluated, factor.id),
     thrown |-> Undefined]

\* one round of the loop of rateGroup: the result pushed for the factor, and the
\* error re-thrown when the call threw and continueOnError is off
FactorStep(acc, factor, call, continueOnError) ==
    [factorResults |->
        Append(acc.factorResults,
               IF call.threw
               THEN FactorResult(factor, FALSE, Int2Num(0), Undefined, Str(call.error.message))
               ELSE call.value),
     evaluated |-> Append(acc.evaluated, factor.id),
     thrown |-> IF call.threw /\ ~continueOnError THEN call.error ELSE Undefined]

RECURSIVE FactorLoop(_, _, _, _, _)
\* the loop of rateGroup over the sorted factors, from the i-th on: the results
\* pushed, the factors rateFactor was called on, and the error re-thrown, if any
FactorLoop(engine, subject, sortedFactors, i, acc) ==
    IF i > Len(sortedFactors) \/ acc.thrown # Undefined THEN acc
    ELSE FactorLoop(engine, subject, sortedFactors, i + 1,
                    FactorStep(acc, sortedFactors[i],
                               rateFactor(engine, subject, sortedFactors[i]),
                               engine.options.continueOnError))

GroupResult(group, isApplied, rate, factorResults) ==
    [group |-> group, isApplied |-> isApplied, rate |-> rate,
     factorResults |-> factorResults]

\* a faulty group rate that aggregates the base rate and the factor rates in one pass
GroupRateSinglePass(group, appliedRates, method) ==
    IF Len(appliedRates) = 0
    THEN (IF Nullish(group.baseRate) THEN Int2Num(0) ELSE group.baseRate)
    ELSE IF group.baseRate # Undefined
    THEN aggregate(<<group.baseRate>> \o appliedRates, method)
    ELSE aggregate(appliedRates, method)

\* the rate of a group from the rates of its applied factors
GroupRate(group, appliedRates, method) ==
    IF Len(appliedRates) = 0
    THEN (IF Nullish(group.baseRate) THEN Int2Num(0) ELSE group.baseRate)
    ELSE IF group.baseRate # Undefined
    THEN aggregate(<<group.baseRate, aggregate(appliedRates, method)>>, method)
    ELSE aggregate(appliedRates, method)

\* a faulty requireAll check that fails on any factor that is not applied
GroupOutcomeAllFactors(group, loop, appliedRates) ==
    IF loop.thrown # Undefined
    THEN [threw |-> TRUE, error |-> loop.thrown, evaluated |-> loop.evaluated]
    ELSE IF Truthy(group.requireAll)
            /\ \E i \in 1..Len(loop.factorResults) : ~loop.factorResults[i].isApplied
    THEN [threw |-> FALSE, evaluated |-> loop.evaluated,
          value |-> GroupResult(group, FALSE, Int2Num(0), loop.factorResults)]
    ELSE [threw |-> FALSE, evaluated |-> loop.evaluated,
          value |-> GroupResult(group, Len(appliedRates) > 0,
                                GroupRate(group, appliedRates, group.aggregationMethod.s[1]),
                                loop.factorResults)]

\* rateGroup after its factor loop
GroupOutcome(group, loop, appliedRates) ==
    IF loop.thrown # Undefined
    THEN [threw |-> TRUE, error |-> loop.thrown, evaluated |-> loop.evaluated]
    ELSE IF Truthy(group.requireAll)
            /\ \E i \in 1..Len(loop.factorResults) :
                  /\ ~loop.factorResults[i].isApplied
                  /\ loop.factorResults[i].factor.required = Bool(TRUE)
    THEN [threw |-> FALSE, evaluated |-> loop.evaluated,
          value |-> GroupResult(group, FALSE, Int2Num(0), loop.factorResults)]
    ELSE [threw |-> FALSE, evaluated |-> loop.evaluated,
          value |-> GroupResult(group, Len(appliedRates) > 0,
                                GroupRate(group, appliedRates, group.aggregationMethod.s[1]),
                                loop.factorResults)]

\* the factor loop of rateGroup and what follows it
RateSortedFactors(group, loop) == GroupOutcome(group, loop, AppliedRates(loop.factorResults))

\* rateGroup; `evaluated' lists the factors rateFactor was called on, in order
rateGroup(engine, subject, group) ==
    IF assertNotDestroyed(engine.isDestroyed) # Undefined
    THEN [threw |-> TRUE, error |-> assertNotDestroyed(engine.isDestroyed),
          evaluated |-> <<>>]
    ELSE IF ~isArray(group.factors)
    THEN [threw |-> TRUE, error |-> TypeError(<<"group.factors is not iterable">>),
          evaluated |-> <<>>]
    ELSE RateSortedFactors(group,
            FactorLoop(engine, subject,
                       SortByPriority(group.factors.a, Len(group.factors.a)), 1,
                       [factorResults |-> <<>>, evaluated |-> <<>>, thrown |-> Undefined]))

RECURSIVE FactorErrors(_, _)
\* the error strings of the factor results that carry one
FactorErrors(factorResults, i) ==
    IF i > Len(factorResults) THEN <<>>
    ELSE (IF Truthy(factorResults[i].error) THEN <<factorResults[i].error.s>> ELSE <<>>)
         \o FactorErrors(factorResults, i + 1)

\* a faulty round of the loop of rate whose catch block never breaks
GroupStepNoBreak(acc, group, call, continueOnError) ==
    IF ~call.threw
    THEN [acc EXCEPT
            !.evaluated = Append(@, group.id),
            !.groupResults = Append(@, call.value),
            !.allFactorResults = @ \o call.value.factorResults,
            !.breakdown =
                IF call.value.isApplied
                THEN Append(@, <<"Group \"">> \o TemplateText(group.label) \o <<"\": ">>
                                \o NumToString(call.value.rate))
                ELSE @,
            !.errors = @ \o FactorErrors(call.value.factorResults, 1)]
    ELSE [acc EXCEPT
            !.evaluated = Append(@, group.id),
            !.errors = Append(@, <<"Group \"">> \o TemplateText(group.id) \o <<"\": ">>
                                 \o call.error.message),
            !.emitted =
                IF ~continueOnError
                THEN Append(@, createRaterError(call.error.message, "CALCULATION_FAILED",
                                                group.id))
                ELSE @]

\* one round of the loop of rate: what the try block or the catch block adds for
\* the group, and whether the loop breaks
GroupStep(acc, group, call, continueOnError) ==
    IF ~call.threw
    THEN [acc EXCEPT
            !.evaluated = Append(@, group.id),
            !.groupResults = Append(@, call.value),
            !.allFactorResults = @ \o call.value.factorResults,
            !.breakdown =
                IF call.value.isApplied
                THEN Append(@, <<"Group \"">> \o TemplateText(group.label) \o <<"\": ">>
                                \o NumToString(call.value.rate))
                ELSE @,
            !.errors = @ \o FactorErrors(call.value.factorResults, 1)]
    ELSE [acc EXCEPT
            !.evaluated = Append(@, group.id),
            !.errors = Append(@, <<"Group \"">> \o TemplateText(group.id) \o <<"\": ">>
                                 \o call.error.message),
            !.emitted =
                IF ~continueOnError
                THEN Append(@, createRaterError(call.error.message, "CALCULATION_FAILED",
                                                group.id))
                ELSE @,
            !.broke = ~continueOnError]

RECURSIVE GroupLoop(_, _, _, _, _)
\* the loop of rate over the groups, from the i-th on.  `evaluated' lists the groups
\* rateGroup was called on, `emitted' the errors handed to #emitError, in order
GroupLoop(engine, subject, groups, i, acc) ==
    IF i > Len(groups) \/ acc.broke THEN acc
    ELSE GroupLoop(engine, subject, groups, i + 1,
                   GroupStep(acc, groups[i], rateGroup(engine, subject, groups[i]),
                             engine.options.continueOnError))

RECURSIVE CountApplied(_, _)
CountApplied(results, i) ==
    IF i > Len(results) THEN 0
    ELSE (IF results[i].isApplied THEN 1 ELSE 0) + CountApplied(results, i + 1)

\* a faulty aggregation that counts the engine's base rate as one more rate
AggregatedRateWithBase(o, appliedGroupRates) ==
    aggregate(<<o.baseRate>> \o appliedGroupRates, o.groupAggregationMethod)

\* the rate of the applied groups before rounding and clamping
AggregatedRate(o, appliedGroupRates) ==
    IF Len(appliedGroupRates) = 0 THEN o.baseRate
    ELSE aggregate(appliedGroupRates, o.groupAggregationMethod)

RatingResult(loop, finalRate) ==
    [finalRate |-> finalRate,
     isSuccessful |-> Len(loop.errors) = 0,
     factorsApplied |-> CountApplied(loop.allFactorResults, 1),
     groupResults |-> loop.groupResults,
     allFactorResults |-> loop.allFactorResults,
     breakdown |-> Append(loop.breakdown, <<"Final rate: ">> \o NumToString(finalRate)),
     errors |-> loop.errors]

\* a faulty end of rate that clamps before it rounds
RateOutcomeClampFirst(o, loop, aggregated) ==
    [threw |-> FALSE,
     value |-> RatingResult(loop, roundToDecimalPlaces(
                                     clamp(aggregated, o.minimumRate, o.maximumRate),
                                     o.decimalPlaces)),
     aggregated |-> aggregated,
     evaluated |-> loop.evaluated, emitted |-> loop.emitted]

\* rate from the aggregation on: rounding, clamping, the result
RateOutcome(o, loop, aggregated) ==
    [threw |-> FALSE,
     value |-> RatingResult(loop, clamp(roundToDecimalPlaces(aggregated, o.decimalPlaces),
                                        o.minimumRate, o.maximumRate)),
     aggregated |-> aggregated,
     evaluated |-> loop.evaluated, emitted |-> loop.emitted]

\* rate after its group loop
RateGroups(o, loop) == RateOutcome(o, loop, AggregatedRate(o, AppliedRates(loop.groupResults)))

\* rate, up to the point where the result is emitted.  `aggregated' is finalRate
\* before the rounding and the clamping
rate(engine, subject, groups) ==
    IF assertNotDestroyed(engine.isDestroyed) # Undefined
    THEN [threw |-> TRUE, error |-> assertNotDestroyed(engine.isDestroyed),
          evaluated |-> <<>>, emitted |-> <<>>]
    ELSE RateGroups(engine.options,
            GroupLoop(engine, subject, groups, 1,
                      [groupResults |-> <<>>, allFactorResults |-> <<>>,
                       breakdown |-> <<<<"Starting with base rate: ">>
                                       \o NumToString(engine.options.baseRate)>>,
                       errors |-> <<>>, evaluated |-> <<>>, emitted |-> <<>>,
                       broke |-> FALSE]))

---------------------------------------------------------------------------
(* helpers.ts: validation *)

\* !s || s.trim() === ''
IsBlank(s) == ~Truthy(s) \/ \A i \in 1..Len(s.s) : IsWhiteSpace(s.s[i])

validateFactor(factor) ==
    LET id == TemplateText(factor.id)
        hasRateSource ==
            \/ factor.baseRate # Undefined
            \/ factor.lookupTable # Undefined
            \/ factor.rangeTable # Undefined
            \/ factor.fieldPath # Undefined
        lookup == factor.lookupTable
        range == factor.rangeTable
    IN  (IF IsBlank(factor.id) THEN << <<"Factor must have an id">> >> ELSE <<>>)
        \o (IF IsBlank(factor.label)
            THEN << <<"Factor ">> \o id \o <<":  must have a label">> >> ELSE <<>>)
        \o (IF ~hasRateSource
            THEN << <<"Factor ">> \o id
                    \o <<": must have baseRate, lookupTable, rangeTable, or fieldPath">> >>
            ELSE <<>>)
        \o (IF Truthy(lookup) /\ ~Truthy(lookup.field)
            THEN << <<"Factor ">> \o id \o <<": lookupTable must have a field">> >> ELSE <<>>)
        \o (IF Truthy(lookup) /\ (~Truthy(lookup.values) \/ Len(lookup.values.o) = 0)
            THEN << <<"Factor ">> \o id \o <<": lookupTable must have values">> >> ELSE <<>>)
        \o (IF Truthy(range) /\ ~Truthy(range.field)
            THEN << <<"Factor ">> \o id \o <<": rangeTable must have a field">> >> ELSE <<>>)
        \o (IF Truthy(range) /\ (~Truthy(range.ranges) \/ Len(range.ranges.a) = 0)
            THEN << <<"Factor ">> \o id \o <<": rangeTable must have ranges">> >> ELSE <<>>)
        \o (IF Truthy(factor.operation) /\ factor.operand = Undefined
            THEN << <<"Factor ">> \o id \o <<": operation requires an operand">> >> ELSE <<>>)

RECURSIVE FactorsErrors(_, _)
FactorsErrors(factors, i) ==
    IF i > Len(factors) THEN <<>>
    ELSE validateFactor(factors[i]) \o FactorsErrors(factors, i + 1)

\* validateGroup: the loop over group.factors throws when there is no factors list
validateGroup(group) ==
    LET id == TemplateText(group.id)
        own ==
            (IF IsBlank(group.id) THEN << <<"Group must have an id">> >> ELSE <<>>)
            \o (IF IsBlank(group.label)
                THEN << <<"Group ">> \o id \o <<": must have a label">> >> ELSE <<>>)
            \o (IF ~Truthy(group.factors) \/ Len(group.factors.a) = 0
                THEN << <<"Group ">> \o id \o <<": must have at least one factor">> >>
                ELSE <<>>)
    IN  IF ~isArray(group.factors)
        THEN Threw(TypeError(<<"group.factors is not iterable">>))
        ELSE Returned(own \o FactorsErrors(group.factors.a, 1))

RECURSIVE ValidateLoop(_, _, _)
ValidateLoop(groups, i, errors) ==
    IF i > Len(groups) THEN Returned(errors)
    ELSE LET call == validateGroup(groups[i])
         IN  IF call.threw THEN call
             ELSE ValidateLoop(groups, i + 1, errors \o call.value)

validateGroups(engine, groups) ==
    IF assertNotDestroyed(engine.isDestroyed) # Undefined
    THEN Threw(assertNotDestroyed(engine.isDestroyed))
    ELSE ValidateLoop(groups, 1, <<>>)

---------------------------------------------------------------------------
(* core/Engine.ts: constructor, subscriptions, lifecycle *)

\* the closures onRate and onError may return in one behaviour
MaxHandles == 2

\* the longest list of groups handed to rate
MaxGroups == 2

DEFAULT_BASE_RATE == 0

DEFAULT_DECIMAL_PLACES == 2

DEFAULT_CONTINUE_ON_ERROR == TRUE

DEFAULT_GROUP_AGGREGATION_METHOD == "sum"

\* a callback function, known by its identity
Fn(name) == [t |-> "fn", name |-> name]

\* the readonly fields the constructor sets from options
ConstructOptions(o) ==
    [baseRate |-> IF Nullish(o.baseRate) THEN Int2Num(DEFAULT_BASE_RATE) ELSE o.baseRate,
     groupAggregationMethod |->
        IF Nullish(o.groupAggregationMethod) THEN DEFAULT_GROUP_AGGREGATION_METHOD
        ELSE o.groupAggregationMethod.s[1],
     minimumRate |-> o.minimumRate,
     maximumRate |-> o.maximumRate,
     decimalPlaces |->
        IF Nullish(o.decimalPlaces) THEN DEFAULT_DECIMAL_PLACES ELSE o.decimalPlaces.n,
     continueOnError |->
        IF Nullish(o.continueOnError) THEN DEFAULT_CONTINUE_ON_ERROR ELSE o.continueOnError.b]

\* the listener set the constructor starts with
ConstructListeners(callback) == IF Truthy(callback) THEN <<callback>> ELSE <<>>

\* a faulty listener collection that is a list: add appends also what is present
SetAddAgain(set, x) == Append(set, x)

\* Set.prototype.add: a new element goes last, a present one stays where it is
SetAdd(set, x) == IF \E i \in 1..Len(set) : set[i] = x THEN set ELSE Append(set, x)

\* a faulty Set.prototype.delete that removes nothing
SetDeleteNothing(set, x) == set

\* Set.prototype.delete
SetDelete(set, x) == SelectSeq(set, LAMBDA y : y # x)

Elements(set) == {set[i] : i \in 1..Len(set)}

\* the callbacks that throw when they are called
ThrowingCallbacks == {Fn("r2"), Fn("e2")}

Engine == [options |-> options, isDestroyed |-> isDestroyed]

RECURSIVE EmitAll(_, _, _)
\* #emitError once for each error of `events', in order
EmitAll(listeners, events, i) ==
    IF i > Len(events) THEN <<>>
    ELSE Emit(listeners, ThrowingCallbacks, events[i]) \o EmitAll(listeners, events, i + 1)

Construct(o) ==
    /\ options = ConstructOptions(o)
    /\ rateListeners = ConstructListeners(o.onRate)
    /\ errorListeners = ConstructListeners(o.onError)
    /\ isDestroyed = FALSE
    /\ handles = <<>>
    /\ last = [op |-> "new", threw |-> FALSE, options |-> o,
               rateNotified |-> <<>>, errorNotified |-> <<>>]

\* onRate(callback): the closure returned is the next entry of handles
OnRate(callback) ==
    /\ Len(handles) < MaxHandles
    /\ rateListeners' = SetAdd(rateListeners, callback)
    /\ handles' = Append(handles, [kind |-> "rate", callback |-> callback, called |-> FALSE])
    /\ last' = [op |-> "onRate", threw |-> FALSE, callback |-> callback,
                rateNotified |-> <<>>, errorNotified |-> <<>>]
    /\ UNCHANGED <<options, errorListeners, isDestroyed, input>>

OnError(callback) ==
    /\ Len(handles) < MaxHandles
    /\ errorListeners' = SetAdd(errorListeners, callback)
    /\ handles' = Append(handles, [kind |-> "error", callback |-> callback, called |-> FALSE])
    /\ last' = [op |-> "onError", threw |-> FALSE, callback |-> callback,
                rateNotified |-> <<>>, errorNotified |-> <<>>]
    /\ UNCHANGED <<options, rateListeners, isDestroyed, input>>

\* a call of the h-th closure returned by onRate or onError
Unsubscribe(h) ==
    /\ h \in 1..Len(handles)
    /\ rateListeners' =
          IF handles[h].kind = "rate" THEN SetDelete(rateListeners, handles[h].callback)
          ELSE rateListeners
    /\ errorListeners' =
          IF handles[h].kind = "error" THEN SetDelete(errorListeners, handles[h].callback)
          ELSE errorListeners
    /\ handles' = [handles EXCEPT ![h].called = TRUE]
    /\ last' = [op |-> "unsubscribe", threw |-> FALSE, handle |-> h,
                kind |-> handles[h].kind, callback |-> handles[h].callback,
                calledBefore |-> handles[h].called,
                rateNotified |-> <<>>, errorNotified |-> <<>>]
    /\ UNCHANGED <<options, isDestroyed, input>>

Destroy ==
    /\ isDestroyed' = TRUE
    /\ rateListeners' = <<>>
    /\ errorListeners' = <<>>
    /\ last' = [op |-> "destroy", threw |-> FALSE, rateNotified |-> <<>>, errorNotified |-> <<>>]
    /\ UNCHANGED <<options, handles, input>>

\* the groups as group.factors.sort(...) without the copy would leave them
SortedInPlace(groups) ==
    [i \in 1..Len(groups) |->
        IF isArray(groups[i].factors)
        THEN [groups[i] EXCEPT
                !.factors = Arr(SortByPriority(groups[i].factors.a, Len(groups[i].factors.a)))]
        ELSE groups[i]]

\* a faulty rate whose rateGroup sorts the factors of the caller's groups in place
RateCallSortingInPlace(call, subject, groups) ==
    IF call.threw
    THEN [op |-> "rate", threw |-> TRUE, error |-> call.error,
          subject |-> subject, groups |-> groups, evaluated |-> call.evaluated,
          rateNotified |-> <<>>, errorNotified |-> <<>>]
    ELSE [op |-> "rate", threw |-> FALSE, value |-> call.value,
          subject |-> subject, groups |-> SortedInPlace(groups),
          aggregated |-> call.aggregated, evaluated |-> call.evaluated,
          rateNotified |-> Emit(rateListeners, ThrowingCallbacks, call.value),
          errorNotified |-> EmitAll(errorListeners, call.emitted, 1)]

\* what a call of rate did: its outcome, the arguments as the call left them, and
\* the listeners it notified
RateCall(call, subject, groups) ==
    IF call.threw
    THEN [op |-> "rate", threw |-> TRUE, error |-> call.error,
          subject |-> subject, groups |-> groups, evaluated |-> call.evaluated,
          rateNotified |-> <<>>, errorNotified |-> <<>>]
    ELSE [op |-> "rate", threw |-> FALSE, value |-> call.value,
          subject |-> subject, groups |-> groups,
          aggregated |-> call.aggregated, evaluated |-> call.evaluated,
          rateNotified |-> Emit(rateListeners, ThrowingCallbacks, call.value),
          errorNotified |-> EmitAll(errorListeners, call.emitted, 1)]

\* rate(subject, groups): the errors of the group loop are emitted to the error
\* listeners, the result to the rate listeners
Rate(subject, groups) ==
    /\ last' = RateCall(rate(Engine, subject, groups), subject, groups)
    /\ UNCHANGED <<options, rateListeners, errorListeners, isDestroyed, handles, input>>

RateGroup(subject, group) ==
    /\ last' = rateGroup(Engine, subject, group) @@
               [op |-> "rateGroup", subject |-> subject, group |-> group,
                rateNotified |-> <<>>, errorNotified |-> <<>>]
    /\ UNCHANGED <<options, rateListeners, errorListeners, isDestroyed, handles, input>>

RateFactor(subject, factor) ==
    /\ last' = rateFactor(Engine, subject, factor) @@
               [op |-> "rateFactor", subject |-> subject, factor |-> factor,
                rateNotified |-> <<>>, errorNotified |-> <<>>]
    /\ UNCHANGED <<options, rateListeners, errorListeners, isDestroyed, handles, input>>

EvaluateCondition(subject, condition) ==
    /\ last' = evaluateCondition(Engine, subject, condition) @@
               [op |-> "evaluateCondition", subject |-> subject, condition |-> condition,
                rateNotified |-> <<>>, errorNotified |-> <<>>]
    /\ UNCHANGED <<options, rateListeners, errorListeners, isDestroyed, handles, input>>

\* applyOperation and aggregate read no field of the engine
ApplyOperation(r, operation, operand) ==
    /\ last' = [op |-> "applyOperation", threw |-> FALSE,
                value |-> applyOperation(r, operation, operand),
                rateNotified |-> <<>>, errorNotified |-> <<>>]
    /\ UNCHANGED <<options, rateListeners, errorListeners, isDestroyed, handles, input>>

Aggregate(rates, method) ==
    /\ last' = [op |-> "aggregate", threw |-> FALSE, value |-> aggregate(rates, method),
                rateNotified |-> <<>>, errorNotified |-> <<>>]
    /\ UNCHANGED <<options, rateListeners, errorListeners, isDestroyed, handles, input>>

\* the helpers validateFactor and validateGroup, which take no engine
ValidateFactor(factor) ==
    /\ last' = [op |-> "validateFactor", threw |-> FALSE, value |-> validateFactor(factor),
                factor |-> factor, rateNotified |-> <<>>, errorNotified |-> <<>>]
    /\ UNCHANGED <<options, rateListeners, errorListeners, isDestroyed, handles, input>>

ValidateGroup(group) ==
    /\ last' = validateGroup(group) @@
               [op |-> "validateGroup", group |-> group,
                rateNotified |-> <<>>, errorNotified |-> <<>>]
    /\ UNCHANGED <<options, rateListeners, errorListeners, isDestroyed, handles, input>>

ValidateGroups(groups) ==
    /\ last' = validateGroups(Engine, groups) @@
               [op |-> "validateGroups", groups |-> groups,
                rateNotified |-> <<>>, errorNotified |-> <<>>]
    /\ UNCHANGED <<options, rateListeners, errorListeners, isDestroyed, handles, input>>

---------------------------------------------------------------------------
(* The configurations and subjects the calls are made with *)

NoFactor ==
    [id |-> Undefined, label |-> Undefined, conditions |-> Undefined,
     baseRate |-> Undefined, lookupTable |-> Undefined, rangeTable |-> Undefined,
     fieldPath |-> Undefined, operation |-> Undefined, operand |-> Undefined,
     required |-> Undefined, enabled |-> Undefined, priority |-> Undefined,
     minimumRate |-> Undefined, maximumRate |-> Undefined]

NewFactor(id) == [NoFactor EXCEPT !.id = Str(id), !.label = Str(id)]

Condition(field, operator, value) ==
    [field |-> Str(field), operator |-> Lit(operator), value |-> value]

Group(id, method, factors) ==
    [id |-> Str(id), label |-> Str(id), factors |-> factors,
     aggregationMethod |-> Lit(method), baseRate |-> Undefined, requireAll |-> Undefined]

NoOptions ==
    [baseRate |-> Undefined, groupAggregationMethod |-> Undefined,
     minimumRate |-> Undefined, maximumRate |-> Undefined, decimalPlaces |-> Undefined,
     continueOnError |-> Undefined, onRate |-> Undefined, onError |-> Undefined]

AGE == <<"a", "g", "e">>

TIER == <<"t", "i", "e", "r">>

SCORE == <<"s", "c", "o", "r", "e">>

\* { age: 30, tier: 'gold', score: '7.5' }
Adult ==
    Obj(<<[k |-> AGE, v |-> Int2Num(30)], [k |-> TIER, v |-> Str(<<"g", "o", "l", "d">>)],
          [k |-> SCORE, v |-> Str(<<"7", ".", "5">>)]>>)

\* { age: 16 }
Minor == Obj(<<[k |-> AGE, v |-> Int2Num(16)]>>)

\* baseRate 10
FBase == [NewFactor(<<"f", "b">>) EXCEPT !.baseRate = Int2Num(10)]

\* baseRate 1.5, evaluated after the factors of priority 0
FHalf == [NewFactor(<<"f", "h">>) EXCEPT !.baseRate = Num(3, 2), !.priority = Int2Num(1)]

\* baseRate 20 for adults only, required
FAdult ==
    [NewFactor(<<"f", "a">>) EXCEPT
        !.baseRate = Int2Num(20), !.required = Bool(TRUE),
        !.conditions = Arr(<<Condition(AGE, "greaterThanOrEqual", Int2Num(18))>>)]

\* the subject's score, plus 10 percent, at most 8
FScore ==
    [NewFactor(<<"f", "s">>) EXCEPT
        !.fieldPath = Str(SCORE), !.operation = Lit("percentage"),
        !.operand = Int2Num(10), !.maximumRate = Int2Num(8)]

\* a lookup by tier
FTier ==
    [NewFactor(<<"f", "t">>) EXCEPT
        !.lookupTable =
            [t |-> "obj", field |-> Str(TIER),
             values |-> Obj(<<[k |-> <<"g", "o", "l", "d">>, v |-> Int2Num(2)],
                              [k |-> <<"s", "i", "l", "v", "e", "r">>, v |-> Int2Num(1)]>>),
             defaultValue |-> Undefined]]

\* a range table over the age
FAge ==
    [NewFactor(<<"f", "r">>) EXCEPT
        !.rangeTable =
            [t |-> "obj", field |-> Str(AGE),
             ranges |-> Arr(<<[minimum |-> Int2Num(18), maximum |-> Int2Num(25), rate |-> Num(3, 2)],
                              [minimum |-> Int2Num(26), maximum |-> Undefined, rate |-> Int2Num(1)]>>),
             defaultRate |-> Undefined]]

\* a lookup table without its values map: evaluating it throws a TypeError
FBroken ==
    [NewFactor(<<"f", "x">>) EXCEPT
        !.lookupTable =
            [t |-> "obj", field |-> Str(TIER), values |-> Undefined,
             defaultValue |-> Undefined]]

FDisabled == [NewFactor(<<"f", "d">>) EXCEPT !.baseRate = Int2Num(7), !.enabled = Bool(FALSE)]

\* sum of 10 and 1.5
GSum == Group(<<"g", "s">>, "sum", Arr(<<FHalf, FBase>>))

\* product of the tier and the age factor on a base rate of 3
GProduct == [Group(<<"g", "p">>, "product", Arr(<<FTier, FAge>>)) EXCEPT !.baseRate = Int2Num(3)]

\* average; applied only when the required factor for adults is
GAdult ==
    [Group(<<"g", "a">>, "average", Arr(<<FScore, FAdult>>)) EXCEPT !.requireAll = Bool(TRUE)]

\* the second factor in priority order throws, the other two are fine
GBroken == Group(<<"g", "x">>, "sum", Arr(<<FHalf, FBase, FBroken>>))

\* no factors list at all: rateGroup itself throws
GNoFactors == Group(<<"g", "n">>, "sum", Undefined)

\* no factor applies, and the group has a base rate of its own
GIdle == [Group(<<"g", "i">>, "sum", Arr(<<FDisabled>>)) EXCEPT !.baseRate = Int2Num(5)]

---------------------------------------------------------------------------
(* The life of one engine: construction, subscriptions, calls, destroy *)

\* createRatingEngine()
DefaultOptions == NoOptions

\* strict mode with well-behaved hooks
StrictOptions ==
    [NoOptions EXCEPT
        !.baseRate = Int2Num(100), !.continueOnError = Bool(FALSE),
        !.onRate = Fn("r1"), !.onError = Fn("e1")]

\* strict mode with hooks that throw
ThrowingOptions ==
    [NoOptions EXCEPT
        !.continueOnError = Bool(FALSE), !.onRate = Fn("r2"), !.onError = Fn("e2")]

LifeOptions == {DefaultOptions, StrictOptions, ThrowingOptions}

RateCallbacks == {Fn("r1"), Fn("r2")}

ErrorCallbacks == {Fn("e1"), Fn("e2")}

LifeGroupLists == {<<>>, <<GSum>>, <<GBroken, GSum>>, <<GNoFactors, GSum>>}

LifeConditions ==
    {Condition(AGE, "greaterThanOrEqual", Int2Num(18)), Condition(TIER, "matches", Str(TIER))}

LifeOperations == {<<"add", Int2Num(10)>>, <<"divide", Int2Num(0)>>, <<"power", Int2Num(2)>>}

LifeRates == {<<>>, <<Int2Num(2), Num(3, 2)>>}

\* the calls of this specification draw their arguments themselves
Init == input = Undefined /\ \E o \in LifeOptions : Construct(o)

Next ==
    \/ \E callback \in RateCallbacks : OnRate(callback)
    \/ \E callback \in ErrorCallbacks : OnError(callback)
    \/ \E h \in 1..MaxHandles : Unsubscribe(h)
    \/ Destroy
    \/ \E groups \in LifeGroupLists : Rate(Adult, groups)
    \/ \E group \in {GSum, GBroken} : RateGroup(Adult, group)
    \/ \E factor \in {FAdult, FBroken} : RateFactor(Minor, factor)
    \/ \E condition \in LifeConditions : EvaluateCondition(Adult, condition)
    \/ \E o \in LifeOperations : ApplyOperation(Int2Num(100), o[1], o[2])
    \/ \E rates \in LifeRates, method \in {"sum", "average"} : Aggregate(rates, method)
    \/ \E groups \in {<<>>, <<GSum, GIdle>>, <<GNoFactors>>} : ValidateGroups(groups)

Spec == Init /\ [][Next]_vars

---------------------------------------------------------------------------
(* Calculations on a live engine, over every configuration of the options *)

GroupPool == {GSum, GProduct, GAdult, GBroken, GNoFactors, GIdle}

FactorPool == {FBase, FHalf, FAdult, FScore, FTier, FAge, FBroken, FDisabled}

Subjects == {Adult, Minor}

RECURSIVE SeqsUpTo(_, _)
\* the sequences over S of length at most n
SeqsUpTo(S, n) ==
    IF n = 0 THEN {<<>>}
    ELSE SeqsUpTo(S, n - 1) \cup {Append(q, x) : q \in SeqsUpTo(S, n - 1), x \in S}

GroupLists == SeqsUpTo(GroupPool, MaxGroups)

CalcOptions ==
    {[NoOptions EXCEPT
        !.baseRate = b, !.groupAggregationMethod = m, !.continueOnError = c,
        !.minimumRate = clamping[1], !.maximumRate = clamping[2],
        !.decimalPlaces = clamping[3],
        !.onRate = hooks[1], !.onError = hooks[2]] :
        b \in {Undefined, Int2Num(100)},
        m \in {Undefined, Lit("product"), Lit("average"), Lit("minimum"), Lit("maximum")},
        c \in {Undefined, Bool(FALSE)},
        clamping \in {<<Undefined, Undefined, Undefined>>,
                      <<Num(11, 2), Int2Num(20), Int2Num(0)>>},
        hooks \in {<<Undefined, Undefined>>, <<Fn("r2"), Fn("e2")>>}}

\* the engine as constructed, or with onRate(r1) and onError(e1) called on it since
Subscribed(o, subscribed) ==
    /\ options = ConstructOptions(o)
    /\ isDestroyed = FALSE
    /\ rateListeners =
          IF subscribed THEN SetAdd(ConstructListeners(o.onRate), Fn("r1"))
          ELSE ConstructListeners(o.onRate)
    /\ errorListeners =
          IF subscribed THEN SetAdd(ConstructListeners(o.onError), Fn("e1"))
          ELSE ConstructListeners(o.onError)
    /\ handles =
          IF subscribed
          THEN <<[kind |-> "rate", callback |-> Fn("r1"), called |-> FALSE],
                 [kind |-> "error", callback |-> Fn("e1"), called |-> FALSE]>>
          ELSE <<>>
    /\ last =
          IF subscribed
          THEN [op |-> "onError", threw |-> FALSE, callback |-> Fn("e1"),
                rateNotified |-> <<>>, errorNotified |-> <<>>]
          ELSE [op |-> "new", threw |-> FALSE, options |-> o,
                rateNotified |-> <<>>, errorNotified |-> <<>>]

\* rate on a live engine, for every configuration, subject and list of groups
InitRate ==
    \E o \in CalcOptions, subscribed \in BOOLEAN, subject \in Subjects, groups \in GroupLists :
        /\ Subscribed(o, subscribed)
        /\ input = [subject |-> subject, groups |-> groups]

NextRate == Rate(input.subject, input.groups)

SpecRate == InitRate /\ [][NextRate]_vars

\* baseRate 4, evaluated before the factors without priority
FLow == [NewFactor(<<"f", "l">>) EXCEPT !.baseRate = Int2Num(4), !.priority = Int2Num(-1)]

\* baseRate 2, with the priority 0 that a factor without priority has
FTwo == [NewFactor(<<"f", "2">>) EXCEPT !.baseRate = Int2Num(2), !.priority = Int2Num(0)]

\* required, and never applied
FRequiredOff ==
    [NewFactor(<<"f", "o">>) EXCEPT
        !.baseRate = Int2Num(3), !.required = Bool(TRUE), !.enabled = Bool(FALSE)]

FactorLists ==
    {<<>>, <<FHalf, FBase, FTwo, FLow>>, <<FTwo, FBase>>, <<FBase, FAdult>>, <<FDisabled>>,
     <<FDisabled, FHalf, FBase>>, <<FRequiredOff, FBase>>, <<FBroken, FAdult, FLow>>}

AggregationMethods == {"sum", "product", "average", "minimum", "maximum"}

\* the groups rateGroup is called on
GroupSpace ==
    GroupPool \cup
    {[Group(<<"g">>, method, Arr(factors)) EXCEPT
        !.baseRate = baseRate, !.requireAll = requireAll] :
        method \in AggregationMethods, factors \in FactorLists,
        baseRate \in {Undefined, Int2Num(50)},
        requireAll \in {Undefined, Bool(TRUE), Bool(FALSE)}}

\* rateGroup reads continueOnError only
GroupOptions == {NoOptions, [NoOptions EXCEPT !.continueOnError = Bool(FALSE)]}

\* rateGroup on a live engine, for every subject and group
InitGroup ==
    \E o \in GroupOptions, subject \in Subjects, group \in GroupSpace :
        /\ Subscribed(o, FALSE)
        /\ input = [subject |-> subject, group |-> group]

NextGroup == RateGroup(input.subject, input.group)

SpecGroup == InitGroup /\ [][NextGroup]_vars

---------------------------------------------------------------------------
(* rateFactor on a live engine, over a space of factors and subjects *)

GOLD == <<"g", "o", "l", "d">>

SILVER == <<"s", "i", "l", "v", "e", "r">>

\* { age: 45, tier: 'silver', score: 3 }
Senior ==
    Obj(<<[k |-> AGE, v |-> Int2Num(45)], [k |-> TIER, v |-> Str(SILVER)],
          [k |-> SCORE, v |-> Int2Num(3)]>>)

\* { age: '9', tier: 'gold', score: 'n/a' }
Child ==
    Obj(<<[k |-> AGE, v |-> Str(<<"9">>)], [k |-> TIER, v |-> Str(GOLD)],
          [k |-> SCORE, v |-> Str(<<"n", "/", "a">>)]>>)

\* { age: 'n/a', tier: 'bronze' }
Stranger ==
    Obj(<<[k |-> AGE, v |-> Str(<<"n", "/", "a">>)],
          [k |-> TIER, v |-> Str(<<"b", "r", "o", "n", "z", "e">>)]>>)

SubjectSpace == {Adult, Minor, Senior, Child, Stranger}

IsAdult == Condition(AGE, "greaterThanOrEqual", Int2Num(18))

IsGold == Condition(TIER, "equals", Str(GOLD))

ConditionLists ==
    {Undefined, Arr(<<>>), Arr(<<IsAdult>>), Arr(<<IsAdult, IsGold>>), Arr(<<IsGold, IsAdult>>)}

\* gold 2, silver 1, with or without a default value
TierTable(defaultValue) ==
    [t |-> "obj", field |-> Str(TIER),
     values |-> Obj(<<[k |-> GOLD, v |-> Int2Num(2)], [k |-> SILVER, v |-> Int2Num(1)]>>),
     defaultValue |-> defaultValue]

\* 18 to 30, 30 and above, 10 and below, with or without a default rate: the
\* first two ranges overlap at 30
AgeTable(defaultRate) ==
    [t |-> "obj", field |-> Str(AGE),
     ranges |-> Arr(<<[minimum |-> Int2Num(18), maximum |-> Int2Num(30), rate |-> Num(3, 2)],
                      [minimum |-> Int2Num(30), maximum |-> Undefined, rate |-> Int2Num(1)],
                      [minimum |-> Undefined, maximum |-> Int2Num(10), rate |-> Int2Num(9)]>>),
     defaultRate |-> defaultRate]

FactorSpace ==
    {[NewFactor(<<"f">>) EXCEPT
        !.enabled = enabled, !.conditions = conditions, !.fieldPath = fieldPath,
        !.lookupTable = lookup, !.rangeTable = range, !.baseRate = baseRate,
        !.operation = adjust[1], !.operand = adjust[2], !.minimumRate = adjust[3]] :
        enabled \in {Undefined, Bool(TRUE), Bool(FALSE)},
        conditions \in ConditionLists,
        fieldPath \in {Undefined, Str(SCORE)},
        lookup \in {Undefined, TierTable(Undefined), TierTable(Int2Num(4))},
        range \in {Undefined, AgeTable(Undefined), AgeTable(Int2Num(6))},
        baseRate \in {Undefined, Int2Num(10)},
        adjust \in {<<Undefined, Undefined, Undefined>>,
                    <<Lit("add"), Int2Num(1), Int2Num(5)>>}}

InitFactor ==
    \E subject \in SubjectSpace, factor \in FactorSpace :
        /\ Subscribed(NoOptions, FALSE)
        /\ input = [subject |-> subject, factor |-> factor]

NextFactor == RateFactor(input.subject, input.factor)

SpecFactor == InitFactor /\ [][NextFactor]_vars

---------------------------------------------------------------------------
(* aggregate on a live engine, over every list of rates up to MaxRates *)

\* the longest list handed to aggregate
MaxRates == 3

RateValues == {Int2Num(-2), Int2Num(0), Num(3, 2), Int2Num(5)}

\* the five methods and one that is not an AggregationMethod
MethodSpace == AggregationMethods \cup {"median"}

InitAggregate ==
    \E rates \in SeqsUpTo(RateValues, MaxRates), method \in MethodSpace :
        /\ Subscribed(NoOptions, FALSE)
        /\ input = [rates |-> rates, method |-> method]

NextAggregate == Aggregate(input.rates, input.method)

SpecAggregate == InitAggregate /\ [][NextAggregate]_vars

---------------------------------------------------------------------------
(* rateFactor on a live engine, over the operations, operands and clamps *)

\* the thirteen operations, none, and one that is not a MathematicalOperation
OperationSpace ==
    {Undefined} \cup
    {Lit(operation) :
        operation \in {"add", "subtract", "multiply", "divide", "percentage", "percentageOf",
                       "minimum", "maximum", "average", "power", "round", "ceil", "floor",
                       "modulo"}}

\* the clamps: none, one bound, both bounds in order, equal, and minimum > maximum
ClampSpace ==
    {<<minimum, maximum>> :
        minimum \in {Undefined, Int2Num(0), Int2Num(8)},
        maximum \in {Undefined, Int2Num(5), Int2Num(8)}}

AdjustedFactors ==
    {[NewFactor(<<"f">>) EXCEPT
        !.baseRate = baseRate, !.operation = operation, !.operand = operand,
        !.minimumRate = bounds[1], !.maximumRate = bounds[2]] :
        baseRate \in {Int2Num(-3), Num(7, 2), Int2Num(10)},
        operation \in OperationSpace,
        operand \in {Undefined, Int2Num(0), Int2Num(2)},
        bounds \in ClampSpace}

InitAdjust ==
    \E factor \in AdjustedFactors :
        /\ Subscribed(NoOptions, FALSE)
        /\ input = [subject |-> Adult, factor |-> factor]

NextAdjust == RateFactor(input.subject, input.factor)

SpecAdjust == InitAdjust /\ [][NextAdjust]_vars

---------------------------------------------------------------------------
(* evaluateCondition on a live engine, over a space of conditions *)

\* { p: { a: 30 } }
Nested == Obj(<<[k |-> <<"p">>, v |-> Obj(<<[k |-> <<"a">>, v |-> Int2Num(30)]>>)]>>)

ConditionSubjects == SubjectSpace \cup {Nested, Null}

\* age, score and the nested p.a
ConditionFields == {AGE, SCORE, <<"p", ".", "a">>}

\* the ten operators and one that is not a ConditionOperator
OperatorSpace == KnownOperators \cup {"matches"}

NotANumber == Str(<<"n", "/", "a">>)

ConditionValues ==
    {Undefined, Int2Num(30), Str(<<"3", "0">>), NotANumber, Str(GOLD),
     Arr(<<>>), Arr(<<Int2Num(18)>>), Arr(<<Int2Num(18), Int2Num(45)>>),
     Arr(<<Int2Num(45), Int2Num(18)>>), Arr(<<Str(<<"9">>), Str(<<"4", "0">>)>>),
     Arr(<<NotANumber, Int2Num(45)>>), Arr(<<Int2Num(18), NotANumber>>),
     Arr(<<Int2Num(16), Int2Num(30), Int2Num(45)>>)}

ConditionSpace ==
    {Condition(field, operator, value) :
        field \in ConditionFields, operator \in OperatorSpace, value \in ConditionValues}

InitCondition ==
    \E subject \in ConditionSubjects, condition \in ConditionSpace :
        /\ Subscribed(NoOptions, FALSE)
        /\ input = [subject |-> subject, condition |-> condition]

NextCondition == EvaluateCondition(input.subject, input.condition)

SpecCondition == InitCondition /\ [][NextCondition]_vars

---------------------------------------------------------------------------
(* validateFactor, validateGroup and validateGroups over a space of configurations *)

BLANK == Str(<<" ", "\t">>)

ValidatedFactors ==
    {[NoFactor EXCEPT
        !.id = id, !.label = label, !.baseRate = baseRate, !.fieldPath = fieldPath,
        !.lookupTable = lookup, !.rangeTable = range,
        !.operation = adjust[1], !.operand = adjust[2]] :
        id \in {Undefined, Str(<<>>), BLANK, Str(<<"f">>)},
        label \in {Undefined, BLANK, Str(<<"f">>)},
        baseRate \in {Undefined, Int2Num(0)},
        fieldPath \in {Undefined, Str(SCORE)},
        lookup \in {Undefined, TierTable(Undefined),
                    [TierTable(Undefined) EXCEPT !.field = Str(<<>>)],
                    [TierTable(Undefined) EXCEPT !.field = BLANK],
                    [TierTable(Undefined) EXCEPT !.values = Obj(<<>>)]},
        range \in {Undefined, AgeTable(Undefined),
                   [AgeTable(Undefined) EXCEPT !.field = BLANK],
                   [AgeTable(Undefined) EXCEPT !.ranges = Arr(<<>>)]},
        adjust \in {<<Undefined, Undefined>>, <<Lit("add"), Undefined>>,
                    <<Lit("add"), Int2Num(0)>>, <<Undefined, Int2Num(1)>>}}

\* a factor with an operation and no operand
FNoOperand == [FBase EXCEPT !.operation = Lit("multiply")]

ValidatedGroups ==
    {[Group(<<"g">>, "sum", factors) EXCEPT !.id = id, !.label = label] :
        id \in {Str(<<"g">>), BLANK},
        label \in {Str(<<"g">>), Undefined},
        factors \in {Undefined, Arr(<<>>), Arr(<<FBase>>), Arr(<<NoFactor, FBase, FNoOperand>>),
                     Arr(<<FNoOperand, NoFactor>>)}}

InitValidate ==
    /\ Subscribed(NoOptions, FALSE)
    /\ \/ \E factor \in ValidatedFactors : input = [kind |-> "factor", factor |-> factor]
       \/ \E group \in ValidatedGroups : input = [kind |-> "group", group |-> group]

NextValidate ==
    \/ input.kind = "factor" /\ ValidateFactor(input.factor)
    \/ input.kind = "group" /\ ValidateGroup(input.group)
    \/ input.kind = "group" /\ ValidateGroups(<<GSum, input.group>>)

SpecValidate == InitValidate /\ [][NextValidate]_vars

---------------------------------------------------------------------------
(* Repeated calculations on a live engine while subscriptions come and go *)

\* a factor whose condition has an operator that is no ConditionOperator
FUnknown ==
    [NewFactor(<<"f", "u">>) EXCEPT
        !.baseRate = Int2Num(3),
        !.conditions = Arr(<<IsAdult, Condition(TIER, "matches", Str(TIER))>>)]

GUnknown == Group(<<"g", "u">>, "sum", Arr(<<FUnknown, FBase>>))

LiveOptions == {NoOptions, StrictOptions}

LiveGroupLists == {<<GSum>>, <<GUnknown, GSum>>, <<GBroken, GSum>>}

\* the engine as constructed; input holds the constructor's options and the
\* arguments of the repeated call
InitLive ==
    \E o \in LiveOptions, groups \in LiveGroupLists :
        /\ Construct(o)
        /\ input = [options |-> o, subject |-> Adult, groups |-> groups]

NextLive ==
    \/ \E callback \in RateCallbacks : OnRate(callback)
    \/ OnError(Fn("e1"))
    \/ \E h \in 1..MaxHandles : Unsubscribe(h)
    \/ Rate(input.subject, input.groups)
    \/ Rate(Minor, <<GAdult, GBroken>>)
    \/ RateGroup(input.subject, input.groups[1])
    \/ RateFactor(input.subject, FUnknown)

SpecLive == InitLive /\ [][NextLive]_vars

---------------------------------------------------------------------------
(* Subscribers that call back into the engine while they are notified *)

Subscribers == {Fn("a"), Fn("b"), Fn("c")}

\* what a subscriber does when it is called: return, throw, call destroy(), or
\* call the closure that the h-th call of onRate returned
Behaviours ==
    {[kind |-> "return"], [kind |-> "throw"], [kind |-> "destroy"]}
    \cup {[kind |-> "unsubscribe", handle |-> h] : h \in 1..2}

\* the subscriber calls a closure that exists
Unsubscribes(does, closures) ==
    does.kind = "unsubscribe" /\ does.handle \in 1..Len(closures)

\* one notification of #emitRate
Notification(listener, event, does, closures) ==
    [callback |-> listener, event |-> event,
     threw |-> does.kind = "throw"
               \/ (does.kind = "unsubscribe" /\ ~Unsubscribes(does, closures))]

RECURSIVE EmitSnapshot(_, _, _)
\* a faulty #emitRate that iterates a copy of the listener set: every listener of
\* the set at the start is called
EmitSnapshot(e, behaviour, event) ==
    IF e.pending = <<>> THEN e
    ELSE EmitSnapshot(
            [listeners |->
                IF behaviour[Head(e.pending)].kind = "destroy" THEN <<>>
                ELSE IF Unsubscribes(behaviour[Head(e.pending)], e.closures)
                THEN SetDelete(e.listeners,
                               e.closures[behaviour[Head(e.pending)].handle].callback)
                ELSE e.listeners,
             pending |-> Tail(e.pending),
             destroyed |-> e.destroyed \/ behaviour[Head(e.pending)].kind = "destroy",
             closures |->
                IF Unsubscribes(behaviour[Head(e.pending)], e.closures)
                THEN [e.closures EXCEPT ![behaviour[Head(e.pending)].handle].called = TRUE]
                ELSE e.closures,
             notified |-> Append(e.notified,
                                 Notification(Head(e.pending), event,
                                              behaviour[Head(e.pending)], e.closures))],
            behaviour, event)

RECURSIVE EmitLive(_, _, _)
\* #emitRate, `for (const listener of this.#rateListeners)', with listeners that
\* call back: the iteration of a Set visits the elements that are in the set when
\* it comes to them, so `pending', the listeners still to be visited, loses what
\* delete() and clear() remove
EmitLive(e, behaviour, event) ==
    IF e.pending = <<>> THEN e
    ELSE EmitLive(
            [listeners |->
                IF behaviour[Head(e.pending)].kind = "destroy" THEN <<>>
                ELSE IF Unsubscribes(behaviour[Head(e.pending)], e.closures)
                THEN SetDelete(e.listeners,
                               e.closures[behaviour[Head(e.pending)].handle].callback)
                ELSE e.listeners,
             pending |->
                IF behaviour[Head(e.pending)].kind = "destroy" THEN <<>>
                ELSE IF Unsubscribes(behaviour[Head(e.pending)], e.closures)
                THEN SetDelete(Tail(e.pending),
                               e.closures[behaviour[Head(e.pending)].handle].callback)
                ELSE Tail(e.pending),
             destroyed |-> e.destroyed \/ behaviour[Head(e.pending)].kind = "destroy",
             closures |->
                IF Unsubscribes(behaviour[Head(e.pending)], e.closures)
                THEN [e.closures EXCEPT ![behaviour[Head(e.pending)].handle].called = TRUE]
                ELSE e.closures,
             notified |-> Append(e.notified,
                                 Notification(Head(e.pending), event,
                                              behaviour[Head(e.pending)], e.closures))],
            behaviour, event)

\* the engine after #emitRate(call.value); nothing is emitted when rate threw
Emitted(call, behaviour) ==
    IF call.threw
    THEN [listeners |-> rateListeners, pending |-> <<>>, destroyed |-> isDestroyed,
          closures |-> handles, notified |-> <<>>]
    ELSE EmitLive([listeners |-> rateListeners, pending |-> rateListeners,
                   destroyed |-> isDestroyed, closures |-> handles, notified |-> <<>>],
                  behaviour, call.value)

\* rate(subject, groups) with its subscribers' calls: destroy() also clears the
\* error listeners
RateAndCallbacks(call, emitted, subject, groups) ==
    /\ rateListeners' = emitted.listeners
    /\ errorListeners' = IF emitted.destroyed THEN <<>> ELSE errorListeners
    /\ isDestroyed' = emitted.destroyed
    /\ handles' = emitted.closures
    /\ last' = [op |-> "rate", threw |-> call.threw, subject |-> subject, groups |-> groups,
                outcome |-> call, listeners |-> rateListeners, closures |-> handles,
                rateNotified |-> emitted.notified, errorNotified |-> <<>>]
    /\ UNCHANGED <<options, input>>

RateReentrant(subject, groups) ==
    RateAndCallbacks(rate(Engine, subject, groups),
                     Emitted(rate(Engine, subject, groups), input.behaviour),
                     subject, groups)

InitReentrant ==
    \E o \in {NoOptions, [NoOptions EXCEPT !.onRate = Fn("c")]},
       behaviour \in [Subscribers -> Behaviours] :
        /\ Construct(o)
        /\ input = [options |-> o, behaviour |-> behaviour]

NextReentrant ==
    \/ \E callback \in Subscribers : OnRate(callback)
    \/ RateReentrant(Adult, <<GSum>>)

SpecReentrant == InitReentrant /\ [][NextReentrant]_vars

---------------------------------------------------------------------------
(* Properties *)

\* the callbacks one pass of notifications called, in order
Notified(notifications) == [i \in 1..Len(notifications) |-> notifications[i].callback]

\* whether evaluating the factor on a live engine raises
FactorRaises(subject, factor) ==
    rateFactor([options |-> options, isDestroyed |-> FALSE], subject, factor).threw

\* whether evaluating the group raises somewhere: the group itself or one of its factors
Raises(subject, group) ==
    \/ ~isArray(group.factors)
    \/ \E i \in 1..Len(group.factors.a) : FactorRaises(subject, group.factors.a[i])

\* the position of the first group whose evaluation raises, 0 if there is none
FirstRaising(subject, groups) ==
    IF \E i \in 1..Len(groups) : Raises(subject, groups[i])
    THEN CHOOSE i \in 1..Len(groups) :
            /\ Raises(subject, groups[i])
            /\ \A j \in 1..(i - 1) : ~Raises(subject, groups[j])
    ELSE 0

\* the position of the first factor whose evaluation raises, 0 if there is none
FirstThrowing(subject, factors) ==
    IF \E i \in 1..Len(factors) : FactorRaises(subject, factors[i])
    THEN CHOOSE i \in 1..Len(factors) :
            /\ FactorRaises(subject, factors[i])
            /\ \A j \in 1..(i - 1) : ~FactorRaises(subject, factors[j])
    ELSE 0

Ids(items, n) == [i \in 1..n |-> items[i].id]

IsPrefix(p, q) == Len(p) <= Len(q) /\ SubSeq(q, 1, Len(p)) = p

RECURSIVE Flatten(_, _)
Flatten(groupResults, i) ==
    IF i > Len(groupResults) THEN <<>>
    ELSE groupResults[i].factorResults \o Flatten(groupResults, i + 1)

GuardedMethods == {"rate", "rateFactor", "rateGroup", "evaluateCondition", "validateGroups"}

\* C1: once destroy() has been called, every call of rate, rateFactor, rateGroup,
\* evaluateCondition and validateGroups throws the UNKNOWN-coded "Rating engine has
\* been destroyed" error, returns no result and notifies no subscriber, even one
\* registered after the destroy.
C1_DestroyedMethodsThrow ==
    isDestroyed /\ last.op \in GuardedMethods =>
        /\ last.threw
        /\ last.error.data.code = "UNKNOWN"
        /\ last.error.message = <<"Rating engine has been destroyed">>
        /\ last.rateNotified = <<>>
        /\ last.errorNotified = <<>>

\* rate was called on a destroyed engine that has a subscriber again
C1_Witness ==
    /\ isDestroyed
    /\ last.op = "rate"
    /\ last.threw
    /\ rateListeners # <<>>

\* C2: once destroy() has been called, applyOperation and aggregate throw like the
\* other public methods.
C2_DestroyedPassThroughsThrow ==
    isDestroyed /\ last.op \in {"applyOperation", "aggregate"} => last.threw

\* C3: rate on a live engine never throws; when the evaluation of a group or of a
\* factor raised, the result has a non-empty errors list and isSuccessful false, and
\* the result is still handed to every rate subscriber.
C3_RateRecordsErrors ==
    last.op = "rate" /\ ~isDestroyed =>
        /\ ~last.threw
        /\ (\E i \in 1..Len(last.evaluated) : Raises(last.subject, last.groups[i])) =>
              /\ Len(last.value.errors) > 0
              /\ \A i \in 1..Len(last.value.errors) : Len(last.value.errors[i]) > 0
              /\ ~last.value.isSuccessful
        /\ Notified(last.rateNotified) = rateListeners
        /\ \A i \in 1..Len(last.rateNotified) : last.rateNotified[i].event = last.value

\* a factor of the first group raised in strict mode and two subscribers got the result
C3_Witness ==
    /\ last.op = "rate"
    /\ ~options.continueOnError
    /\ Len(last.groups) > 0
    /\ last.groups[1] = GBroken
    /\ ~last.threw
    /\ Len(last.value.errors) = 1
    /\ Len(last.rateNotified) = 2

\* C4: with continueOnError false, when the k-th group raises, rate does not throw:
\* the error is recorded in errors, every error subscriber is called exactly once
\* with a CALCULATION_FAILED error carrying the id of that group, no later group is
\* evaluated, groupResults and allFactorResults hold the results of the groups
\* before the k-th only, and the final rate is the one of those groups alone.
C4_StrictModeStopsAtFailure ==
    last.op = "rate" /\ ~isDestroyed /\ ~options.continueOnError
    /\ FirstRaising(last.subject, last.groups) > 0 =>
        /\ ~last.threw
        /\ last.evaluated = Ids(last.groups, FirstRaising(last.subject, last.groups))
        /\ Len(last.value.groupResults) = FirstRaising(last.subject, last.groups) - 1
        /\ \A i \in 1..Len(last.value.groupResults) :
              last.value.groupResults[i] =
                 rateGroup([options |-> options, isDestroyed |-> FALSE],
                           last.subject, last.groups[i]).value
        /\ last.value.allFactorResults = Flatten(last.value.groupResults, 1)
        /\ Len(last.value.errors) = 1
        /\ IsPrefix(<<"Group \"">>
                      \o last.groups[FirstRaising(last.subject, last.groups)].id.s
                      \o <<"\": ">>,
                    last.value.errors[1])
        /\ Notified(last.errorNotified) = errorListeners
        /\ \A i \in 1..Len(last.errorNotified) :
              /\ last.errorNotified[i].event.data.code = "CALCULATION_FAILED"
              /\ last.errorNotified[i].event.data.groupId =
                    last.groups[FirstRaising(last.subject, last.groups)].id
        /\ last.value.finalRate =
              rate([options |-> options, isDestroyed |-> FALSE], last.subject,
                   SubSeq(last.groups, 1, FirstRaising(last.subject, last.groups) - 1))
                 .value.finalRate

\* the second of the groups raised and two error subscribers were told
C4_Witness ==
    /\ last.op = "rate"
    /\ ~options.continueOnError
    /\ Len(last.groups) >= 2
    /\ FirstRaising(last.subject, last.groups) = 2
    /\ last.groups[1] = GProduct
    /\ Len(last.value.groupResults) = 1
    /\ Len(last.errorNotified) = 2

\* C5: an error raised during rate reaches the error subscribers whether
\* continueOnError is on or off; stated here for continueOnError true: when the
\* result records errors, every error subscriber has been called.
C5_ErrorsReachSubscribers ==
    last.op = "rate" /\ ~last.threw /\ options.continueOnError
    /\ Len(last.value.errors) > 0 =>
        \A i \in 1..Len(errorListeners) :
            \E j \in 1..Len(last.errorNotified) :
                last.errorNotified[j].callback = errorListeners[i]

\* C6: in rateGroup, with continueOnError false the error of the first factor (in
\* priority order) that raises is re-thrown and no later factor is evaluated; with
\* continueOnError true rateGroup returns a result for every factor, the one of a
\* factor that raised having isApplied false, rate 0 and the message of the error.
C6_GroupFactorFailure ==
    last.op = "rateGroup" /\ ~isDestroyed /\ isArray(last.group.factors) =>
        LET sorted == SortByPriority(last.group.factors.a, Len(last.group.factors.a))
            k == FirstThrowing(last.subject, sorted)
            live == [options |-> options, isDestroyed |-> FALSE]
        IN  /\ ~options.continueOnError /\ k > 0 =>
                 /\ last.threw
                 /\ last.error = rateFactor(live, last.subject, sorted[k]).error
                 /\ last.evaluated = Ids(sorted, k)
            /\ options.continueOnError =>
                 /\ ~last.threw
                 /\ last.evaluated = Ids(sorted, Len(sorted))
                 /\ Len(last.value.factorResults) = Len(sorted)
                 /\ \A i \in 1..Len(sorted) :
                       IF FactorRaises(last.subject, sorted[i])
                       THEN /\ last.value.factorResults[i].factor = sorted[i]
                            /\ ~last.value.factorResults[i].isApplied
                            /\ last.value.factorResults[i].rate = Int2Num(0)
                            /\ last.value.factorResults[i].error =
                                  Str(rateFactor(live, last.subject, sorted[i]).error.message)
                       ELSE last.value.factorResults[i] =
                               rateFactor(live, last.subject, sorted[i]).value

\* in strict mode the second of three factors raised and the third was not evaluated
C6_Witness ==
    /\ last.op = "rateGroup"
    /\ ~options.continueOnError
    /\ last.threw
    /\ isArray(last.group.factors)
    /\ Len(last.group.factors.a) = 3
    /\ Len(last.evaluated) = 2

\* C7: a subscriber that throws does not keep the other subscribers of the same
\* event from being called, and rate still returns its result.
C7_SubscribersAreIsolated ==
    last.op = "rate" /\ ~isDestroyed =>
        /\ (\E i \in 1..Len(last.rateNotified) : last.rateNotified[i].threw) =>
              /\ ~last.threw
              /\ Notified(last.rateNotified) = rateListeners
        /\ (\E i \in 1..Len(last.errorNotified) : last.errorNotified[i].threw) =>
              /\ ~last.threw
              /\ Notified(last.errorNotified) = errorListeners

\* the first rate subscriber and the first error subscriber threw, and the second
\* of each was called all the same
C7_Witness ==
    /\ last.op = "rate"
    /\ ~last.threw
    /\ Len(last.rateNotified) = 2
    /\ last.rateNotified[1].threw
    /\ ~last.rateNotified[2].threw
    /\ Len(last.errorNotified) = 2
    /\ last.errorNotified[1].threw
    /\ ~last.errorNotified[2].threw

\* C8: rate calls every callback that is registered when it runs exactly once, with
\* the result it returns, and no callback that is not registered; onRate registers
\* its callback, the closure it returned unregisters it, the other calls leave the
\* registrations alone, and the callbacks of options.onRate and options.onError are
\* registered from the construction on.
C8_RateSubscriptions ==
    /\ [](last.op = "rate" /\ ~last.threw =>
            /\ Notified(last.rateNotified) = rateListeners
            /\ \A i, j \in 1..Len(rateListeners) :
                  rateListeners[i] = rateListeners[j] => i = j
            /\ \A i \in 1..Len(last.rateNotified) :
                  last.rateNotified[i].event = last.value)
    /\ [](last.op = "new" =>
            /\ Elements(rateListeners) =
                  IF last.options.onRate = Undefined THEN {} ELSE {last.options.onRate}
            /\ Elements(errorListeners) =
                  IF last.options.onError = Undefined THEN {} ELSE {last.options.onError})
    /\ [][CASE last'.op = "onRate" ->
                 Elements(rateListeners') = Elements(rateListeners) \cup {last'.callback}
            [] last'.op = "unsubscribe" /\ last'.kind = "rate" ->
                 Elements(rateListeners') = Elements(rateListeners) \ {last'.callback}
            [] last'.op = "destroy" -> rateListeners' = <<>>
            [] OTHER -> rateListeners' = rateListeners]_vars

\* rate notified one callback while another one, unsubscribed before, was left out
C8_Witness ==
    /\ last.op = "rate"
    /\ ~last.threw
    /\ Len(last.rateNotified) = 1
    /\ \E h \in 1..Len(handles) :
          /\ handles[h].kind = "rate"
          /\ handles[h].called
          /\ handles[h].callback # last.rateNotified[1].callback

\* C9: calling an unsubscribe closure again is a no-op: it leaves the registrations
\* as they are.
C9_UnsubscribeIsIdempotent ==
    [][last'.op = "unsubscribe" /\ last'.calledBefore =>
          /\ rateListeners' = rateListeners
          /\ errorListeners' = errorListeners]_vars

RatesOfApplied(results) ==
    LET applied == SelectSeq(results, LAMBDA r : r.isApplied)
    IN  [i \in 1..Len(applied) |-> applied[i].rate]

\* C11: with groupAggregationMethod 'product', the rate of rate before rounding and
\* clamping is the engine's base rate multiplied with the rates of the applied
\* groups.
C11_ProductMultipliesBaseRate ==
    last.op = "rate" /\ ~last.threw /\ options.groupAggregationMethod = "product"
    /\ Len(RatesOfApplied(last.value.groupResults)) > 0 =>
        last.aggregated =
           NumMul(options.baseRate,
                  aggregate(RatesOfApplied(last.value.groupResults), "product"))

\* C12: finalRate is the aggregated (or base) rate rounded to decimalPlaces, half
\* up, and then clamped to [minimumRate, maximumRate]; with minimumRate <=
\* maximumRate configured it lies between them, also when no group is applied, and
\* clamping it again changes nothing.
C12_RoundThenClamp ==
    last.op = "rate" /\ ~last.threw =>
        LET scale == Int2Num(IntPow(10, options.decimalPlaces))
            rounded == roundToDecimalPlaces(last.aggregated, options.decimalPlaces)
            twice == NumMul(Int2Num(2), NumMul(NumSub(rounded, last.aggregated), scale))
            low == options.minimumRate
            high == options.maximumRate
            final == last.value.finalRate
        IN  /\ NumMul(rounded, scale).d = 1
            /\ NumLt(Int2Num(-1), twice) /\ NumLe(twice, Int2Num(1))
            /\ final = IF low # Undefined /\ NumLt(rounded, low) THEN low
                       ELSE IF high # Undefined /\ NumLt(high, rounded) THEN high
                       ELSE rounded
            /\ low # Undefined /\ high # Undefined /\ NumLe(low, high) =>
                  NumLe(low, final) /\ NumLe(final, high)
            /\ clamp(final, low, high) = final

\* a rate ending in one half was rounded up to a whole number and then cut down to
\* the maximum
C12_Witness ==
    /\ last.op = "rate"
    /\ ~last.threw
    /\ options.decimalPlaces = 0
    /\ last.aggregated.d = 2
    /\ NumLt(last.aggregated,
             roundToDecimalPlaces(last.aggregated, options.decimalPlaces))
    /\ options.maximumRate # Undefined
    /\ NumLt(options.maximumRate,
             roundToDecimalPlaces(last.aggregated, options.decimalPlaces))
    /\ last.value.finalRate = options.maximumRate

\* the conditions of a factor, none when the list is missing
ConditionsOf(factor) == IF Truthy(factor.conditions) THEN factor.conditions.a ELSE <<>>

\* C13: rateFactor returns isApplied true exactly when enabled is not false and
\* every condition is met (a missing or empty list counts as all met); a result that
\* is not applied has rate 0 whatever the rate sources, operation and clamp bounds;
\* an enabled factor with conditions gets one condition result per condition, in
\* declared order, also when an earlier condition fails.
C13_AppliedIffEnabledAndAllMet ==
    last.op = "rateFactor" /\ ~isDestroyed =>
        LET conditions == ConditionsOf(last.factor)
            met == [i \in 1..Len(conditions) |->
                       evaluateRateCondition(last.subject, conditions[i])]
        IN  /\ ~last.threw
            /\ last.value.isApplied <=>
                  /\ last.factor.enabled # Bool(FALSE)
                  /\ \A i \in 1..Len(conditions) : met[i].isMet
            /\ ~last.value.isApplied => last.value.rate = Int2Num(0)
            /\ last.factor.enabled # Bool(FALSE) /\ Len(conditions) > 0 =>
                  last.value.conditionResults = Arr(met)

\* the first of two conditions failed, the second was evaluated and met, and the
\* factor, which has a base rate, an operation and a minimum, has rate 0
C13_Witness ==
    /\ last.op = "rateFactor"
    /\ ~last.threw
    /\ ~last.value.isApplied
    /\ last.factor.enabled # Bool(FALSE)
    /\ last.factor.baseRate # Undefined
    /\ last.factor.minimumRate # Undefined
    /\ last.value.conditionResults # Undefined
    /\ Len(last.value.conditionResults.a) = 2
    /\ ~last.value.conditionResults.a[1].isMet
    /\ last.value.conditionResults.a[2].isMet

\* the positions of the ranges whose inclusive bounds contain the value
MatchingRanges(ranges, value) ==
    {i \in 1..Len(ranges) :
        /\ ranges[i].minimum = Undefined \/ NumLe(ranges[i].minimum, value)
        /\ ranges[i].maximum = Undefined \/ NumLe(value, ranges[i].maximum)}

Lowest(S) == CHOOSE i \in S : \A j \in S : i <= j

\* the value a factor resolves to by the documented order of its rate sources
ResolvedBySpec(subject, factor) ==
    LET fieldValue ==
            IF factor.fieldPath = Undefined THEN Undefined
            ELSE toNumber(getNestedValue(subject, factor.fieldPath.s))
        lookup == factor.lookupTable
        found ==
            IF lookup = Undefined THEN Undefined
            ELSE LookupValue(lookup.values,
                             toLookupKey(getNestedValue(subject, lookup.field.s)))
        range == factor.rangeTable
        number ==
            IF range = Undefined THEN Undefined
            ELSE toNumber(getNestedValue(subject, range.field.s))
        matching ==
            IF number = Undefined THEN {} ELSE MatchingRanges(range.ranges.a, number)
    IN  IF fieldValue # Undefined THEN fieldValue
        ELSE IF found # Undefined THEN found
        ELSE IF lookup # Undefined /\ lookup.defaultValue # Undefined
        THEN lookup.defaultValue
        ELSE IF matching # {} THEN range.ranges.a[Lowest(matching)].rate
        ELSE IF range # Undefined /\ range.defaultRate # Undefined THEN range.defaultRate
        ELSE IF factor.baseRate # Undefined THEN factor.baseRate
        ELSE Int2Num(0)

\* C14: the value of an applied factor is resolved in the order fieldPath >
\* lookupTable > rangeTable > baseRate > 0 with fall-through: the field path wins
\* only when the subject's value is numeric-coercible, the lookup table when it
\* holds the key or has a default value, the range table when a range matches or it
\* has a default rate; a source that yields nothing does not block the next one.
C14_SourcePriority ==
    last.op = "rateFactor" /\ ~last.threw /\ last.value.isApplied =>
        last.value.rate =
           clamp(IF last.factor.operation # Undefined
                 THEN applyOperation(ResolvedBySpec(last.subject, last.factor),
                                     last.factor.operation.s[1], last.factor.operand)
                 ELSE ResolvedBySpec(last.subject, last.factor),
                 last.factor.minimumRate, last.factor.maximumRate)

\* a factor with all four sources fell through the field path, the lookup table and
\* the range table, none of which has a value for the subject, to its base rate
C14_Witness ==
    /\ last.op = "rateFactor"
    /\ ~last.threw
    /\ last.value.isApplied
    /\ last.factor.fieldPath # Undefined
    /\ last.factor.lookupTable # Undefined
    /\ last.factor.rangeTable # Undefined
    /\ last.factor.baseRate # Undefined
    /\ last.factor.operation = Undefined
    /\ last.subject = Minor
    /\ last.value.rate = last.factor.baseRate

\* a factor whose only rate source is its range table, taken as it resolves
RangeOnly(factor) ==
    /\ factor.rangeTable # Undefined
    /\ factor.fieldPath = Undefined
    /\ factor.lookupTable = Undefined
    /\ factor.baseRate = Undefined
    /\ factor.operation = Undefined
    /\ factor.minimumRate = Undefined
    /\ factor.maximumRate = Undefined

\* C15: a range table gives the rate of the first range in declared order whose
\* bounds, both inclusive, an absent one unbounded, contain the subject's numeric
\* value, so that of overlapping ranges the earlier wins; when the value is not
\* numeric-coercible or no range matches, the default rate is used when present.
C15_FirstRangeWins ==
    last.op = "rateFactor" /\ ~last.threw /\ last.value.isApplied
    /\ RangeOnly(last.factor) =>
        LET table == last.factor.rangeTable
            number == toNumber(getNestedValue(last.subject, table.field.s))
            matching ==
                IF number = Undefined THEN {} ELSE MatchingRanges(table.ranges.a, number)
        IN  /\ matching # {} =>
                 last.value.rate = table.ranges.a[Lowest(matching)].rate
            /\ matching = {} /\ table.defaultRate # Undefined =>
                 last.value.rate = table.defaultRate
            /\ matching = {} /\ table.defaultRate = Undefined =>
                 last.value.rate = Int2Num(0)

\* the value 30 is the inclusive maximum of the first range and the inclusive
\* minimum of the second, and the rate is the one of the first
C15_Witness ==
    /\ last.op = "rateFactor"
    /\ ~last.threw
    /\ last.value.isApplied
    /\ RangeOnly(last.factor)
    /\ last.subject = Adult
    /\ MatchingRanges(last.factor.rangeTable.ranges.a, Int2Num(30)) = {1, 2}
    /\ last.value.rate = last.factor.rangeTable.ranges.a[1].rate

\* a factor without conditions, operation and clamp bounds whose only rate source
\* is a lookup table without default value that does not hold the subject's key, or
\* a range table without default rate none of whose ranges matches
MissesOnly(subject, factor) ==
    /\ factor.enabled # Bool(FALSE)
    /\ ConditionsOf(factor) = <<>>
    /\ factor.fieldPath = Undefined
    /\ factor.baseRate = Undefined
    /\ factor.operation = Undefined
    /\ factor.minimumRate = Undefined
    /\ factor.maximumRate = Undefined
    /\ \/ /\ factor.rangeTable = Undefined
          /\ factor.lookupTable # Undefined
          /\ isRecord(factor.lookupTable.values)
          /\ factor.lookupTable.defaultValue = Undefined
          /\ LookupValue(factor.lookupTable.values,
                         toLookupKey(getNestedValue(subject, factor.lookupTable.field.s)))
                = Undefined
       \/ /\ factor.lookupTable = Undefined
          /\ factor.rangeTable # Undefined
          /\ factor.rangeTable.defaultRate = Undefined
          /\ LET number == toNumber(getNestedValue(subject, factor.rangeTable.field.s))
             IN  number = Undefined
                 \/ MatchingRanges(factor.rangeTable.ranges.a, number) = {}

\* a group all of whose factors miss, and whose rate is then 0
MissingGroup(subject, group) ==
    /\ isArray(group.factors)
    /\ Len(group.factors.a) > 0
    /\ \A i \in 1..Len(group.factors.a) : MissesOnly(subject, group.factors.a[i])
    /\ group.requireAll = Undefined
    /\ group.baseRate = Undefined \/ group.aggregationMethod = Lit("product")

\* C16: a lookup miss without default value, or no matching range without default
\* rate, in a factor that has no other rate source gives an applied factor result
\* with rate 0 and no error; the group of the factor is applied, and rate returns
\* the final rate 0 with isSuccessful true, not the engine's base rate.
C16_MissIsAppliedZero ==
    last.op = "rate" /\ ~last.threw =>
        /\ \A i \in 1..Len(last.value.allFactorResults) :
              MissesOnly(last.subject, last.value.allFactorResults[i].factor) =>
                 /\ last.value.allFactorResults[i].isApplied
                 /\ last.value.allFactorResults[i].rate = Int2Num(0)
                 /\ last.value.allFactorResults[i].error = Undefined
        /\ \A i \in 1..Len(last.value.groupResults) :
              MissingGroup(last.subject, last.value.groupResults[i].group) =>
                 /\ last.value.groupResults[i].isApplied
                 /\ last.value.groupResults[i].rate = Int2Num(0)
        /\ Len(last.groups) > 0
           /\ (\A i \in 1..Len(last.groups) : MissingGroup(last.subject, last.groups[i])) =>
              /\ last.value.isSuccessful
              /\ last.aggregated = Int2Num(0)
              /\ options.minimumRate = Undefined => last.value.finalRate = Int2Num(0)

\* on an engine with base rate 100 the only group has a lookup factor and a range
\* factor that both miss, and the final rate is 0
C16_Witness ==
    /\ last.op = "rate"
    /\ ~last.threw
    /\ options.baseRate = Int2Num(100)
    /\ Len(last.groups) = 1
    /\ MissingGroup(last.subject, last.groups[1])
    /\ Len(last.value.allFactorResults) = 2
    /\ last.value.allFactorResults[1].factor.lookupTable # Undefined
    /\ last.value.allFactorResults[2].factor.rangeTable # Undefined
    /\ last.value.isSuccessful
    /\ last.value.finalRate = Int2Num(0)

\* the factors of the results, in order
FactorsOf(results) == [i \in 1..Len(results) |-> results[i].factor]

\* the position of the factor in the sequence
PositionIn(factors, factor) == CHOOSE p \in 1..Len(factors) : factors[p] = factor

\* C17: rateGroup evaluates the factors, and lists them in factorResults, in
\* ascending order of priority (0 when missing); factors of equal priority keep the
\* relative order they have in group.factors; group.factors itself keeps its order.
C17_StablePriorityOrder ==
    last.op = "rateGroup" /\ ~isDestroyed /\ ~last.threw =>
        LET factors == last.group.factors.a
            order == FactorsOf(last.value.factorResults)
        IN  /\ Len(order) = Len(factors)
            /\ \A i \in 1..Len(factors) : \E p \in 1..Len(order) : order[p] = factors[i]
            /\ \A p, q \in 1..Len(order) :
                  p < q => NumLe(PriorityOf(order[p]), PriorityOf(order[q]))
            /\ \A i, j \in 1..Len(factors) :
                  i < j /\ PriorityOf(factors[i]) = PriorityOf(factors[j]) =>
                     PositionIn(order, factors[i]) < PositionIn(order, factors[j])
            /\ last.evaluated = Ids(order, Len(order))
            /\ last.value.group = last.group

\* four factors were reordered: the one of priority -1 came first, the one of
\* priority 1 last, and the two of priority 0 kept their order
C17_Witness ==
    /\ last.op = "rateGroup"
    /\ ~last.threw
    /\ Len(last.value.factorResults) = 4
    /\ FactorsOf(last.value.factorResults) # last.group.factors.a
    /\ PriorityOf(last.value.factorResults[2].factor)
          = PriorityOf(last.value.factorResults[3].factor)
    /\ last.value.factorResults[1].factor = last.group.factors.a[4]
    /\ last.value.factorResults[4].factor = last.group.factors.a[1]

\* whether a factor marked required is not applied for the subject
RequiredFails(subject, factors) ==
    \E i \in 1..Len(factors) :
        /\ factors[i].required = Bool(TRUE)
        /\ \/ FactorRaises(subject, factors[i])
           \/ ~rateFactor([options |-> options, isDestroyed |-> FALSE],
                          subject, factors[i]).value.isApplied

\* what rateGroup gives for the same group without requireAll
WithoutRequireAll(subject, group) ==
    rateGroup([options |-> options, isDestroyed |-> FALSE], subject,
              [group EXCEPT !.requireAll = Undefined]).value

C20_BaseRateIsOneOfTheRates ==
    last.op = "rateGroup" /\ ~isDestroyed /\ ~last.threw
    /\ last.value.isApplied /\ last.group.baseRate # Undefined =>
        last.value.rate =
           aggregate(<<last.group.baseRate>> \o RatesOfApplied(last.value.factorResults),
                     last.group.aggregationMethod.s[1])

RECURSIVE SumOf(_)
\* the sum of a sequence of numbers, from its head
SumOf(values) ==
    IF values = <<>> THEN Int2Num(0) ELSE NumAdd(Head(values), SumOf(Tail(values)))

RECURSIVE ProductOf(_)
ProductOf(values) ==
    IF values = <<>> THEN Int2Num(1) ELSE NumMul(Head(values), ProductOf(Tail(values)))

\* C21: aggregate(values, method) is the reference aggregate: 0 on the empty
\* sequence for every method, an unknown one included; on a non-empty sequence
\* the sum, the product, the arithmetic mean, the least or the greatest element
\* for the respective method, and the first element for an unknown method.
C21_AggregateReference ==
    last.op = "aggregate" =>
        /\ ~last.threw
        /\ LET values == input.rates
               method == input.method
               n == Len(values)
           IN  IF n = 0 THEN last.value = Int2Num(0)
               ELSE CASE method = "sum" -> last.value = SumOf(values)
                      [] method = "product" -> last.value = ProductOf(values)
                      [] method = "average" ->
                            NumMul(last.value, Int2Num(n)) = SumOf(values)
                      [] method = "minimum" ->
                            /\ \E i \in 1..n : values[i] = last.value
                            /\ \A i \in 1..n : NumLe(last.value, values[i])
                      [] method = "maximum" ->
                            /\ \E i \in 1..n : values[i] = last.value
                            /\ \A i \in 1..n : NumLe(values[i], last.value)
                      [] OTHER -> last.value = values[1]

\* the product of the empty list has been taken
C21_Witness ==
    /\ last.op = "aggregate"
    /\ input.rates = <<>>
    /\ input.method = "product"
    /\ last.value = Int2Num(0)

\* the value the operation of a factor gives on the resolved value
Adjusted(factor, resolved) ==
    IF Truthy(factor.operation) /\ factor.operand # Undefined
    THEN applyOperation(resolved, factor.operation.s[1], factor.operand)
    ELSE resolved

\* the minimum applied first
AfterMinimum(v, minimum) == IF minimum # Undefined /\ NumLt(v, minimum) THEN minimum ELSE v

\* and then the maximum
AfterMaximum(v, maximum) == IF maximum # Undefined /\ NumLt(maximum, v) THEN maximum ELSE v

\* C22: rateFactor never throws on a factor with a base rate, whatever its
\* bounds; for an applied factor the rate is the resolved value, taken through
\* applyOperation when operation is set and operand is defined and unchanged
\* otherwise (round, ceil and floor without operand included), then through the
\* minimum and then through the maximum; it is at most maximumRate, and at
\* least minimumRate when minimumRate <= maximumRate.
C22_OperationThenClamp ==
    last.op = "rateFactor" =>
        /\ ~last.threw
        /\ last.value.isApplied =>
              LET factor == last.factor
                  resolved == resolveFactorRate(last.subject, factor).value
                  r == last.value.rate
              IN  /\ r = AfterMaximum(AfterMinimum(Adjusted(factor, resolved),
                                                   factor.minimumRate),
                                      factor.maximumRate)
                  /\ factor.operand = Undefined =>
                        r = AfterMaximum(AfterMinimum(resolved, factor.minimumRate),
                                         factor.maximumRate)
                  /\ factor.maximumRate # Undefined => NumLe(r, factor.maximumRate)
                  /\ (/\ factor.minimumRate # Undefined
                      /\ factor.maximumRate # Undefined => NumLe(factor.minimumRate,
                                                                 factor.maximumRate))
                        => NumLe(factor.minimumRate, r)

\* a factor with `round' and no operand kept its fraction, and a factor whose
\* minimum is above its maximum was rated
C22_Witness ==
    /\ last.op = "rateFactor"
    /\ ~last.threw
    /\ last.value.isApplied
    /\ last.factor.operation = Lit("round")
    /\ last.factor.operand = Undefined
    /\ last.factor.minimumRate = Undefined
    /\ last.factor.maximumRate = Undefined
    /\ last.value.rate = Num(7, 2)

\* minimum 8 and maximum 5: the maximum, applied last, is the rate
C22_ReversedBounds ==
    /\ last.op = "rateFactor"
    /\ ~last.threw
    /\ last.factor.minimumRate = Int2Num(8)
    /\ last.factor.maximumRate = Int2Num(5)
    /\ last.value.rate = Int2Num(5)

\* value is a sequence [lo, hi] of two elements
IsPair(value) == isArray(value) /\ Len(value.a) = 2

\* the two bounds of a pair both coerce to numbers
NumericBounds(value) ==
    IsPair(value) /\ toNumber(value.a[1]) # Undefined /\ toNumber(value.a[2]) # Undefined

\* lo <= actual <= hi with the bounds as given
WithinBounds(actual, value) ==
    /\ NumericBounds(value)
    /\ toNumber(actual) # Undefined
    /\ NumLe(toNumber(value.a[1]), toNumber(actual))
    /\ NumLe(toNumber(actual), toNumber(value.a[2]))

\* C23: `between' is met iff value is a sequence [lo, hi] of two elements, the
\* actual value and both bounds coerce to numbers and lo <= actual <= hi, the
\* bounds taken as given; `notBetween' is the negation of `between' when both
\* bounds coerce to numbers and is met in every other case.
C23_BetweenAndNotBetween ==
    (last.op = "evaluateCondition" /\ ~last.threw) =>
        LET condition == last.condition
            result == last.value
        IN  /\ condition.operator = Lit("between") =>
                  (result.isMet <=> WithinBounds(result.actualValue, condition.value))
            /\ condition.operator = Lit("notBetween") =>
                  (result.isMet <=>
                      IF NumericBounds(condition.value)
                      THEN ~WithinBounds(result.actualValue, condition.value)
                      ELSE TRUE)

\* the numeric operators
NumericOperators == {"greaterThan", "lessThan", "greaterThanOrEqual", "lessThanOrEqual"}

\* C24: evaluating a condition never raises: the result carries the condition and
\* the actual value found at the dot-path; an unknown operator gives isMet = false
\* and an error that is a diagnostic string; a known operator gives no error; a
\* numeric operator with a side that does not coerce to a number gives isMet =
\* false; with a value that is no sequence `in' is not met and `notIn' is met.
C24_ConditionNeverRaises ==
    last.op = "evaluateCondition" =>
        /\ ~last.threw
        /\ LET condition == last.condition
               operator == condition.operator.s[1]
               result == last.value
               actual == getNestedValue(last.subject, condition.field.s)
           IN  /\ result.condition = condition
               /\ result.actualValue = actual
               /\ operator \notin KnownOperators =>
                     /\ ~result.isMet
                     /\ isString(result.error)
                     /\ result.error.s # <<>>
               /\ operator \in KnownOperators => result.error = Undefined
               /\ (/\ operator \in NumericOperators
                   /\ (toNumber(actual) = Undefined \/ toNumber(condition.value) = Undefined))
                     => ~result.isMet
               /\ (operator = "in" /\ ~isArray(condition.value)) => ~result.isMet
               /\ (operator = "notIn" /\ ~isArray(condition.value)) => result.isMet

\* an unknown operator was evaluated on a nested field that holds a value
C24_Witness ==
    /\ last.op = "evaluateCondition"
    /\ ~last.threw
    /\ last.condition.operator = Lit("matches")
    /\ last.value.actualValue = Int2Num(30)
    /\ last.condition.field = Str(<<"p", ".", "a">>)
    /\ last.value.error = Str(<<"Unknown operator: ", "matches">>)

\* notIn was met on a value that is no sequence
C24_NotInWitness ==
    /\ last.op = "evaluateCondition"
    /\ last.condition.operator = Lit("notIn")
    /\ ~isArray(last.condition.value)
    /\ last.value.isMet

\* the diagnostics of a group itself: those that start with "Group"
OwnDiagnostics(diagnostics) == SelectSeq(diagnostics, LAMBDA d : d[1] \in {"Group ", "Group must have an id"})

\* C25: validateFactor, validateGroup and, on a live engine, validateGroups
\* never raise, also for a group whose factors list is missing or empty: each
\* returns a list of diagnostic strings, and the list of a group is its own
\* diagnostics followed by the diagnostics of each factor in factor order.
C25_ValidationNeverRaises ==
    last.op \in {"validateFactor", "validateGroup", "validateGroups"} =>
        /\ ~last.threw
        /\ last.op = "validateGroup" =>
              LET factors == IF isArray(last.group.factors) THEN last.group.factors.a ELSE <<>>
                  own == OwnDiagnostics(last.value)
              IN  last.value = own \o FactorsErrors(factors, 1)

\* a string with a character that is not white space
NonBlank(value) == isString(value) /\ \E i \in 1..Len(value.s) : ~IsWhiteSpace(value.s[i])

\* the rules of a valid factor
FactorRules(factor) ==
    /\ NonBlank(factor.id)
    /\ NonBlank(factor.label)
    /\ \/ factor.baseRate # Undefined
       \/ factor.lookupTable # Undefined
       \/ factor.rangeTable # Undefined
       \/ factor.fieldPath # Undefined
    /\ factor.lookupTable # Undefined =>
          /\ NonBlank(factor.lookupTable.field)
          /\ isRecord(factor.lookupTable.values)
          /\ factor.lookupTable.values.o # <<>>
    /\ factor.rangeTable # Undefined =>
          /\ NonBlank(factor.rangeTable.field)
          /\ isArray(factor.rangeTable.ranges)
          /\ factor.rangeTable.ranges.a # <<>>
    /\ factor.operation # Undefined => factor.operand # Undefined

\* C26: validateFactor returns the empty list if and only if all rules hold: id
\* and label non-blank (white space only is blank), one of baseRate, lookupTable,
\* rangeTable, fieldPath present, a present lookupTable with a non-blank field and
\* a non-empty values map, a present rangeTable with a non-blank field and a
\* non-empty ranges list, and operand defined whenever operation is set.
C26_ValidIffRulesHold ==
    last.op = "validateFactor" =>
        /\ ~last.threw
        /\ last.value = <<>> <=> FactorRules(last.factor)

\* the engine as the constructor left it
Fresh(o) == [options |-> ConstructOptions(o), isDestroyed |-> FALSE]

IndexIn(set, x) == IF \E i \in 1..Len(set) : set[i] = x
                   THEN CHOOSE i \in 1..Len(set) : set[i] = x ELSE 0

\* the listener at position i of the set, when called, takes the listener at
\* position j > i out of the set: by destroy() or by that listener's unsubscribe
Removes(behaviour, closures, set, i, j) ==
    \/ behaviour[set[i]].kind = "destroy"
    \/ /\ Unsubscribes(behaviour[set[i]], closures)
       /\ closures[behaviour[set[i]].handle].callback = set[j]

\* C28: when an onRate subscriber, while it is notified, calls destroy() or the
\* unsubscribe function of a subscriber not yet notified in this emission, that
\* subscriber is not notified of the current result, and the rate call still
\* returns its result without throwing; a subscriber is skipped for no other
\* reason.
C28_ReentrantEmission ==
    (last.op = "rate" /\ ~last.outcome.threw) =>
        LET set == last.listeners
            notified == Notified(last.rateNotified)
        IN  /\ ~last.threw
            /\ last.outcome.value = rate(Fresh(input.options), Adult, <<GSum>>).value
            /\ \A n \in 1..Len(notified) : last.rateNotified[n].event = last.outcome.value
            /\ \A j \in 1..Len(set) :
                  (\E n \in 1..Len(notified) : notified[n] = set[j])
                  <=> ~\E i \in 1..(j - 1) :
                        /\ \E n \in 1..Len(notified) : notified[n] = set[i]
                        /\ Removes(input.behaviour, last.closures, set, i, j)

\* the first of three subscribers unsubscribed the third, the second was
\* notified, and the call returned
C28_Witness ==
    /\ last.op = "rate"
    /\ ~last.threw
    /\ Len(last.listeners) = 3
    /\ input.behaviour[last.listeners[1]].kind = "unsubscribe"
    /\ Notified(last.rateNotified) = <<last.listeners[1], last.listeners[2]>>
    /\ rateListeners = <<last.listeners[2]>> \/ rateListeners = SubSeq(last.listeners, 1, 2)

\* a subscriber called destroy() and the subscribers after it were not notified
C28_DestroyWitness ==
    /\ last.op = "rate"
    /\ ~last.threw
    /\ Len(last.listeners) = 3
    /\ input.behaviour[last.listeners[2]].kind = "destroy"
    /\ Notified(last.rateNotified) = SubSeq(last.listeners, 1, 2)
    /\ isDestroyed
    /\ rateListeners = <<>>

\* the number of positions of a sequence that hold x
Occurrences(seq, x) == Cardinality({i \in 1..Len(seq) : seq[i] = x})

\* C29: subscriptions are keyed by the identity of the callback: a callback
\* registered more than once by onRate, or as options.onRate and by onRate, is
\* one subscription; it is invoked exactly once for a rate call, and any one of
\* the unsubscribe functions returned for it ends the subscription.
C29_OneSubscriptionPerCallback ==
    /\ \A callback \in RateCallbacks : Occurrences(rateListeners, callback) <= 1
    /\ (last.op = "rate" /\ ~last.threw) =>
          \A callback \in RateCallbacks :
              Occurrences(Notified(last.rateNotified), callback) =
                  IF callback \in Elements(rateListeners) THEN 1 ELSE 0
    /\ (last.op = "unsubscribe" /\ last.kind = "rate") =>
          last.callback \notin Elements(rateListeners)

\* r1 is options.onRate and was registered twice by onRate: one notification
C29_Witness ==
    /\ last.op = "rate"
    /\ ~last.threw
    /\ input.options.onRate = Fn("r1")
    /\ Len(handles) = 2
    /\ \A h \in 1..2 : handles[h] = [kind |-> "rate", callback |-> Fn("r1"), called |-> FALSE]
    /\ Notified(last.rateNotified) = <<Fn("r1")>>

\* one of the two unsubscribe functions of r1 was called: r1 is no listener
C29_UnsubscribeWitness ==
    /\ last.op = "unsubscribe"
    /\ last.callback = Fn("r1")
    /\ input.options.onRate = Fn("r1")
    /\ Len(handles) = 2
    /\ handles[1].callback = Fn("r1") /\ handles[2].callback = Fn("r1")
    /\ ~handles[1].called
    /\ rateListeners = <<>>

\* one of the conditions of the factor has an operator that is not known
HasUnknownOperator(factor) ==
    \E i \in 1..Len(ConditionsOf(factor)) :
        ConditionsOf(factor)[i].operator.s[1] \notin KnownOperators

\* C30: the error of a condition is never propagated: rateFactor on a factor
\* with a condition whose operator is unknown returns isApplied = false, rate 0
\* and no error on the factor result, the error being in conditionResults only;
\* a rate call with such a factor has no errors, isSuccessful = true, and calls
\* no onError subscriber.
C30_ConditionErrorsStayLocal ==
    /\ (last.op = "rateFactor" /\ HasUnknownOperator(last.factor)) =>
          /\ ~last.threw
          /\ ~last.value.isApplied
          /\ last.value.rate = Int2Num(0)
          /\ last.value.error = Undefined
          /\ \E i \in 1..Len(last.value.conditionResults.a) :
                last.value.conditionResults.a[i].error # Undefined
    /\ (last.op = "rate" /\ last.groups = <<GUnknown, GSum>>) =>
          /\ ~last.threw
          /\ last.value.errors = <<>>
          /\ last.value.isSuccessful
          /\ last.errorNotified = <<>>
          /\ \E i \in 1..Len(last.value.allFactorResults) :
                /\ last.value.allFactorResults[i].factor = FUnknown
                /\ ~last.value.allFactorResults[i].isApplied
                /\ last.value.allFactorResults[i].error = Undefined

\* a strict engine with an error subscriber rated the group of the factor
C30_Witness ==
    /\ last.op = "rate"
    /\ last.groups = <<GUnknown, GSum>>
    /\ ~options.continueOnError
    /\ errorListeners # <<>>
    /\ last.value.isSuccessful

=============================================================================
